---- MODULE Spec2Model ----
(***************************************************************************)
(* A model of the Australian Digital Divide simulation (ADD model.py):     *)
(* the household decision engine, the firm economics, the price and plan   *)
(* experiment state machines and the monthly scheduler.                    *)
(*                                                                         *)
(* Conventions.  Money, prices, incomes, value scores and probabilities    *)
(* are exact rationals <<n, d>> (d > 0, lowest terms).  Python's None and   *)
(* False-as-"no record" are the empty tuple <<>>; a reference to an object  *)
(* is <<id>>.  Plans live in a heap (plans), rosters and bundles hold plan  *)
(* ids, so that two holders of one plan object see each other's writes as   *)
(* they do in Python.  Firm, roster and quadrant indices are the code's     *)
(* 0-based indices; TLA+ sequences are 1-based, hence the "+ 1".            *)
(***************************************************************************)
EXTENDS Integers, Sequences, FiniteSets, TLC

VARIABLES
    pc,                       \* position of the scheduler inside run_simulation
    param,                    \* the run's parameters (run_simulation's arguments)
    ISPs,                     \* global ISPs: firm index -> firm record
    plans,                    \* heap of plan objects: plan id -> plan record
    operator_locations,       \* global operator_locations: quadrant -> firm indices
    grid,                     \* global grid: cell -> household record
    dynamic_switching_costs,  \* cell -> switching cost
    switchers,                \* cell -> 0 / 1
    replacements,             \* list returned by review_plan_experiments
    num_real_problems,        \* count returned by all_agents_updates
    month,                    \* loop variable i of simulate_market_dynamics
    Seed,                     \* the (monthly rebound) Seed
    add_to_seed,              \* global draw counter
    stream,                   \* the generator: what a draw yields under a seed value
    run,                      \* which execution of run_simulation this is
    history,                  \* month-end snapshots of the first execution
    exp_orig,                 \* history: firm -> price of the targeted plan before its price experiment
    fin,                      \* input of the function under test (function specifications)
    fout                      \* its result

vars == <<pc, param, ISPs, plans, operator_locations, grid, dynamic_switching_costs,
          switchers, replacements, num_real_problems, month, Seed, add_to_seed,
          stream, run, history, exp_orig, fin, fout>>

-----------------------------------------------------------------------------
(* Exact rational arithmetic.                                              *)

RECURSIVE GCD(_, _)
GCD(a, b) == IF b = 0 THEN a ELSE GCD(b, a % b)

Abs(x) == IF x < 0 THEN -x ELSE x

Rat(n, d) ==
    LET s == IF d < 0 THEN -1 ELSE 1
        g == GCD(Abs(n), Abs(d))
    IN  IF n = 0 THEN <<0, 1>> ELSE <<(s * n) \div g, (s * d) \div g>>

RInt(n) == <<n, 1>>
\* the sum over the least common denominator, which keeps the products of
\* two floats of many bits within 32 bits
RAdd(a, b) ==
    LET g == GCD(a[2], b[2])
    IN  Rat(a[1] * (b[2] \div g) + b[1] * (a[2] \div g), (a[2] \div g) * b[2])
RNeg(a) == <<-a[1], a[2]>>
RSub(a, b) == RAdd(a, RNeg(b))
RMul(a, b) == Rat(a[1] * b[1], a[2] * b[2])
RDiv(a, b) == Rat(a[1] * b[2], a[2] * b[1])
\* a < b, comparing the integer parts first so that the dummy bundle's cost
\* of 10^9 never overflows a 32-bit product
RLt(a, b) ==
    LET fa == a[1] \div a[2]
        fb == b[1] \div b[2]
        g == GCD(a[2], b[2])
    IN  IF fa # fb THEN fa < fb
        ELSE (a[1] % a[2]) * (b[2] \div g) < (b[1] % b[2]) * (a[2] \div g)
RLe(a, b) == ~RLt(b, a)
RGt(a, b) == RLt(b, a)
RGe(a, b) == ~RLt(a, b)
RZero == RInt(0)

-----------------------------------------------------------------------------
(* The draw source: random.seed(Seed + add_to_seed); add_to_seed += 23     *)
(* before every draw.  A generator r is [seed, ats, fn, mode]; a draw       *)
(* returns the set of <<value, generator after>> pairs it can produce.      *)
(* In mode "free" a draw yields any value of its range.  In mode "seeded"   *)
(* the value is a function of the seed value, as it is for Python's         *)
(* generator: fn = <<a, b, c>> names one such function.                     *)

None == <<>>

\* the element of the finite set of integers S with n elements below it
Nth(S, n) == CHOOSE v \in S : Cardinality({ x \in S : x < v }) = n

\* the number the generator fn yields once seeded with s
Mix(fn, s) == (fn[1] * s * s + fn[2] * s + fn[3]) % 31

Draw(r, S) ==
    LET s == r.seed + r.ats
        vals == IF r.mode = "seeded" THEN { Nth(S, Mix(r.fn, s) % Cardinality(S)) } ELSE S
    IN  { <<v, [r EXCEPT !.ats = @ + 23]>> : v \in vals }

\* how many failed draws a loop that draws until it succeeds is followed
\* through, when the generator is seeded
SeededRedraws == 12

\* ... and when it is free: the bound given
Redraws(r, free) == IF r.mode = "seeded" THEN SeededRedraws ELSE free

\* a seed slot consumed without a draw
Skip(r) == [r EXCEPT !.ats = @ + 23]

\* random.random(), in quarters: the values 1/4 and 3/4
U == {1, 3}
ULt(u, p) == RLt(Rat(u, 4), p)
UGt(u, p) == RGt(Rat(u, 4), p)

-----------------------------------------------------------------------------
(* Household decision engine.                                              *)

IsNone(x) == x = None
P(heap, ref) == heap[ref[1]]

\* plan_available_in_my_area(plan, quad)
plan_available_in_my_area(plan, quad) ==
    IF plan.name = "PLAN GONE" THEN FALSE
    ELSE IF plan.kind = "wifi"
         THEN \/ quad = 0 /\ plan.loc = "urban"
              \/ quad \in {1, 2} /\ plan.loc = "regional"
              \/ quad # 0 /\ plan.loc = "remote"
         ELSE \/ plan.loc = "remote"
              \/ plan.loc = "regional" /\ quad # 3

RECURSIVE MaxCap(_, _, _)
MaxCap(heap, refs, k) ==
    IF k > Len(refs) THEN 0
    ELSE LET rest == MaxCap(heap, refs, k + 1)
             c == P(heap, refs[k]).cap
         IN  IF c > rest THEN c ELSE rest

Bool(b) == IF b THEN "T" ELSE "F"

\* create_bundle_eval_list(bundles) for a list of (mobile, wifi) tuples
EvalComplete(heap, bundles) ==
    LET max_GB == MaxCap(heap, [k \in 1..Len(bundles) |-> bundles[k][1]], 1)
        max_Mbps == MaxCap(heap, [k \in 1..Len(bundles) |-> bundles[k][2]], 1)
    IN  [k \in 1..Len(bundles) |->
            LET m == P(heap, bundles[k][1])
                w == P(heap, bundles[k][2])
            IN  [cost |-> RAdd(m.price, w.price),
                 value |-> RDiv(RAdd(Rat(m.cap, max_GB), Rat(w.cap, max_Mbps)), RInt(2)),
                 mqm |-> Bool(m.cap > 61),
                 mqw |-> Bool(w.cap > 25)]]

\* create_bundle_eval_list(bundles) for a list of single plans
EvalSingle(heap, refs) ==
    LET max_value == MaxCap(heap, refs, 1)
    IN  [k \in 1..Len(refs) |->
            LET p == P(heap, refs[k])
            IN  [cost |-> p.price,
                 value |-> Rat(p.cap, max_value),
                 mqm |-> IF p.kind = "mobile" THEN Bool(p.cap > 61) ELSE "N",
                 mqw |-> IF p.kind = "wifi" THEN Bool(p.cap > 25) ELSE "N"]]

create_bundle_eval_list(heap, bundles, complete) ==
    IF complete THEN EvalComplete(heap, bundles) ELSE EvalSingle(heap, bundles)

dummy == [cost |-> RInt(1000000000), value |-> RZero, mqm |-> "dummy", mqw |-> "dummy"]

\* a comparison by price alone
cheaper_only(new, cur, PrSacrificeWifi, r) == { <<RLe(new.cost, cur.cost), Skip(r)>> }

\* new_is_a_cheaper_minimum_quality: the set of <<answer, generator>> outcomes.
\* The seed slot is consumed on entry whether or not random.random() is called.
new_is_a_cheaper_minimum_quality(new, cur, PrSacrificeWifi, r) ==
    LET det(b) == { <<b, Skip(r)>> }
        \* random.random() < PrSacrificeWifi gives yes, else no
        rnd(yes, no) == { <<IF ULt(d[1], PrSacrificeWifi) THEN yes ELSE no, d[2]>> : d \in Draw(r, U) }
        cheaper == det(RLe(new.cost, cur.cost))
        better == det(RGe(new.value, cur.value))
        n == <<new.mqm, new.mqw>>
        c == <<cur.mqm, cur.mqw>>
    IN  IF new.mqm = "dummy" THEN det(FALSE)
        ELSE IF cur.mqm = "dummy" THEN det(TRUE)
        ELSE IF new.mqm # "N" /\ new.mqw # "N" /\ cur.mqm # "N" /\ cur.mqw # "N"
        THEN IF n = <<"T", "T">>
             THEN IF c = <<"T", "T">> THEN cheaper ELSE det(TRUE)
             ELSE IF n = <<"T", "F">>
             THEN IF c = <<"T", "T">> THEN det(FALSE)
                  ELSE IF c = <<"T", "F">> THEN cheaper
                  ELSE IF c = <<"F", "T">> THEN rnd(TRUE, FALSE)
                  ELSE det(TRUE)
             ELSE IF n = <<"F", "T">>
             THEN IF c = <<"F", "F">> THEN det(TRUE)
                  ELSE IF c = <<"F", "T">> THEN cheaper
                  ELSE IF c = <<"T", "F">> THEN rnd(TRUE, FALSE)
                  ELSE det(FALSE)
             ELSE IF c = <<"F", "F">> THEN better ELSE det(FALSE)
        ELSE IF new.mqm # "N" /\ new.mqw # "N" THEN det(TRUE)
        ELSE IF cur.mqm # "N" /\ cur.mqw # "N" THEN det(FALSE)
        ELSE IF new.mqm = "N"
        THEN IF cur.mqm # "N" THEN rnd(FALSE, TRUE)
             ELSE IF new.mqw = "T"
             THEN IF cur.mqw = "T" THEN cheaper ELSE det(TRUE)
             ELSE IF cur.mqw = "T" THEN det(FALSE) ELSE better
        ELSE IF cur.mqw # "N" THEN rnd(TRUE, FALSE)
             ELSE IF new.mqm = "T"
             THEN IF cur.mqm = "T" THEN cheaper ELSE det(TRUE)
             ELSE IF cur.mqm = "T" THEN det(FALSE) ELSE better

\* the baseline decision_tree starts from (lines 521-535)
InitialBest(heap, bundle, bundles, complete, initial_call) ==
    IF initial_call \/ bundle = <<None, None>> THEN dummy
    ELSE IF complete /\ (IsNone(bundle[1]) \/ IsNone(bundle[2])) THEN dummy
    ELSE IF \/ IsNone(bundle[1]) /\ ~complete /\ P(heap, bundles[1]).kind = "mobile"
            \/ IsNone(bundle[2]) /\ ~complete /\ P(heap, bundles[1]).kind = "wifi"
         THEN dummy
    ELSE IF IsNone(bundle[1]) THEN EvalSingle(heap, <<bundle[2]>>)[1]
    ELSE IF IsNone(bundle[2]) THEN EvalSingle(heap, <<bundle[1]>>)[1]
    ELSE EvalComplete(heap, <<bundle>>)[1]

\* the loop of decision_tree over the candidates k..Len(evals) (lines 538-564):
\* the set of [cb, cbi, r] it can end with
RECURSIVE DTLoop(_, _, _, _, _, _, _)
DTLoop(evals, income, pp, k, cb, cbi, r) ==
    IF k > Len(evals) THEN { [cb |-> cb, cbi |-> cbi, r |-> r] }
    ELSE
    LET new == evals[k]
        keep(r2) == DTLoop(evals, income, pp, k + 1, cb, cbi, r2)
        take(r2) == DTLoop(evals, income, pp, k + 1, new, k - 1, r2)
        quality(r2) == UNION { IF a[1] THEN take(a[2]) ELSE keep(a[2]) :
                               a \in new_is_a_cheaper_minimum_quality(new, cb, pp.PrSacrificeWifi, r2) }
    IN  IF RLt(RDiv(new.cost, income), pp.IncomeBudget)
        THEN IF RGe(RDiv(cb.cost, income), Rat(5, 100))
             THEN IF RLt(new.cost, cb.cost) THEN take(r) ELSE keep(r)
             ELSE IF RLt(RDiv(new.cost, income), Rat(5, 100))
                  THEN IF RLe(RDiv(new.cost, income), Rat(2, 100)) /\ RGt(new.value, cb.value)
                       THEN UNION { IF ULt(d[1], pp.PrPickBetterValue) THEN take(d[2]) ELSE quality(d[2]) :
                                    d \in Draw(r, U) }
                       ELSE quality(r)
                  ELSE keep(r)
        ELSE keep(r)

\* decision_tree without lines 571-575: None whenever no candidate was taken
decision_tree_never_keeps(heap, income, bundle, bundles, complete, pp, r, initial_call) ==
    IF Len(bundles) = 0 THEN { [tag |-> "None", idx |-> 0, r |-> r] }
    ELSE
    LET evals == create_bundle_eval_list(heap, bundles, complete)
        start == InitialBest(heap, bundle, bundles, complete, initial_call)
    IN  { IF e.cbi = -1
          THEN [tag |-> "None", idx |-> 0, r |-> e.r]
          ELSE [tag |-> "index", idx |-> e.cbi, r |-> e.r]
          : e \in DTLoop(evals, income, pp, 1, start, -1, r) }

\* decision_tree: the set of [tag, idx, r] results; tag is "None", "no change" or
\* "index".  The test of line 567 compares a cost with the string 'dummy' and
\* never holds; the dummy's cost of 10^9 fails the test of line 572 instead.
decision_tree(heap, income, bundle, bundles, complete, pp, r, initial_call) ==
    IF Len(bundles) = 0 THEN { [tag |-> "None", idx |-> 0, r |-> r] }
    ELSE
    LET evals == create_bundle_eval_list(heap, bundles, complete)
        start == InitialBest(heap, bundle, bundles, complete, initial_call)
    IN  { IF e.cbi = -1
          THEN IF RGt(RDiv(e.cb.cost, income), pp.IncomeBudget)
               THEN [tag |-> "None", idx |-> 0, r |-> e.r]
               ELSE [tag |-> "no change", idx |-> 0, r |-> e.r]
          ELSE [tag |-> "index", idx |-> e.cbi, r |-> e.r]
          : e \in DTLoop(evals, income, pp, 1, start, -1, r) }

\* decide_bundle: the set of [bundle, r] results
decide_bundle(heap, income, bundle, complete_bundles, mobile_plans, wifi_plans, pp, r, initial_call) ==
    UNION {
      IF c.tag = "no change" THEN { [bundle |-> bundle, r |-> c.r] }
      ELSE IF c.tag = "index" THEN { [bundle |-> complete_bundles[c.idx + 1], r |-> c.r] }
      ELSE UNION {
        IF m.tag = "no change" THEN { [bundle |-> bundle, r |-> m.r] }
        ELSE IF m.tag = "index" THEN { [bundle |-> <<mobile_plans[m.idx + 1], None>>, r |-> m.r] }
        ELSE {
          IF w.tag = "no change" THEN [bundle |-> bundle, r |-> w.r]
          ELSE IF w.tag = "index" THEN [bundle |-> <<None, wifi_plans[w.idx + 1]>>, r |-> w.r]
          ELSE [bundle |-> <<None, None>>, r |-> w.r]
          : w \in decision_tree(heap, income, bundle, wifi_plans, FALSE, pp, m.r, initial_call) }
        : m \in decision_tree(heap, income, bundle, mobile_plans, FALSE, pp, c.r, initial_call) }
      : c \in decision_tree(heap, income, bundle, complete_bundles, TRUE, pp, r, initial_call) }

\* decide_expenditure(bundle, income): None, or the percentage of income spent
decide_expenditure(heap, bundle, income) ==
    IF bundle = <<None, None>> THEN None
    ELSE IF IsNone(bundle[1]) THEN RMul(RDiv(P(heap, bundle[2]).price, income), RInt(100))
    ELSE IF IsNone(bundle[2]) THEN RMul(RDiv(P(heap, bundle[1]).price, income), RInt(100))
    ELSE RMul(RDiv(RAdd(P(heap, bundle[1]).price, P(heap, bundle[2]).price), income), RInt(100))

-----------------------------------------------------------------------------
(* Consideration sampling and bundle assembly.                             *)

RemoveAt(s, k) == SubSeq(s, 1, k - 1) \o SubSeq(s, k + 1, Len(s))

RECURSIVE SeqSum(_, _)
SeqSum(s, k) == IF k > Len(s) THEN RZero ELSE RAdd(s[k], SeqSum(s, k + 1))

\* the marketing weight of a candidate firm (lines 351-357)
marketing_budget(isp, MarketingBudget) ==
    IF RLe(isp.profit, RZero) THEN RMul(MarketingBudget, isp.moneypool)
    ELSE RMul(MarketingBudget, isp.profit)

OffersMobile(isp, quad) == isp.mobile_offered /\ quad \in isp.mobile_locs
OffersWifi(isp, quad) == isp.wifi_offered /\ quad \in isp.wifi_locs

\* one weighted draw of random.choices over the remaining candidates: the
\* positions a draw can return are those of positive weight
Pickable(weights) == { k \in 1..Len(weights) : RGt(weights[k], RZero) }

Crash(r) == [ok |-> FALSE, mob |-> <<>>, wifi |-> <<>>, drawn |-> <<>>, r |-> r]

\* the three loops of pick_operators (lines 369-415); phase 1 is the time
\* budget, 2 tops up the wifi list, 3 tops up the mobile list; drawn lists
\* the <<phase, firm>> of every draw, in order
RECURSIVE PickLoop(_, _, _, _, _, _, _, _, _, _)
PickLoop(isps, quad, phase, choices, weights, tb, selM, selW, drawn, r) ==
    LET active == IF phase = 1 THEN tb > 0
                  ELSE IF phase = 2 THEN Len(choices) > 0 /\ Len(selM) > Len(selW)
                  ELSE Len(choices) > 0 /\ Len(selM) < Len(selW)
    IN  IF ~active
        THEN IF phase < 3
             THEN PickLoop(isps, quad, phase + 1, choices, weights, tb, selM, selW, drawn, r)
             ELSE { [ok |-> TRUE, mob |-> selM, wifi |-> selW, drawn |-> drawn, r |-> r] }
        ELSE IF Pickable(weights) = {} THEN { Crash(Skip(r)) }
        ELSE UNION {
            LET k == d[1]
                index == choices[k]
                m == OffersMobile(isps[index], quad)
                w == OffersWifi(isps[index], quad)
                selM2 == IF (phase = 1 /\ m) \/ (phase = 3 /\ m) THEN Append(selM, index) ELSE selM
                selW2 == IF (phase = 1 /\ w) \/ (phase = 2 /\ w) THEN Append(selW, index) ELSE selW
                tb2 == IF phase = 1 /\ (m \/ w) THEN tb - 1 ELSE tb
            IN  PickLoop(isps, quad, phase, RemoveAt(choices, k), RemoveAt(weights, k),
                         tb2, selM2, selW2, Append(drawn, <<phase, index>>), d[2])
            : d \in Draw(r, Pickable(weights)) }

\* ensure_adds_to_1 on the normalised weights, in exact arithmetic: a total of
\* exactly 1 is returned as it is; an empty vector has total 0 < 1 and
\* random.randint(0, -1) raises
ensure_adds_to_1_total(weights) ==
    IF Len(weights) = 0 THEN RZero
    ELSE SeqSum([k \in 1..Len(weights) |-> RDiv(weights[k], SeqSum(weights, 1))], 1)

\* pick_operators without the clamp of lines 366-367
pick_operators_unclamped(isps, quad, oploc, TimeBudget, MarketingBudget, r) ==
    LET choices == oploc[quad]
        weights == [k \in 1..Len(choices) |-> marketing_budget(isps[choices[k]], MarketingBudget)]
    IN  IF Len(choices) = 0 THEN { Crash(Skip(r)) }
        ELSE IF SeqSum(weights, 1) = RZero THEN { Crash(r) }
        ELSE PickLoop(isps, quad, 1, choices, weights, TimeBudget, <<>>, <<>>, <<>>, r)

\* pick_operators: the set of [ok, mob, wifi, r] outcomes; ok is FALSE when
\* the call raises
pick_operators(isps, quad, oploc, TimeBudget, MarketingBudget, r) ==
    LET choices == oploc[quad]
        weights == [k \in 1..Len(choices) |-> marketing_budget(isps[choices[k]], MarketingBudget)]
        tb == IF TimeBudget > Len(choices) THEN Len(choices) ELSE TimeBudget
    IN  IF Len(choices) = 0 THEN { Crash(Skip(r)) }
        ELSE IF SeqSum(weights, 1) = RZero THEN { Crash(r) }
        ELSE PickLoop(isps, quad, 1, choices, weights, tb, <<>>, <<>>, <<>>, r)

\* the grid is GridN x GridN cells (100 x 100 in the code), row-major
GridN == 2
Half == GridN \div 2
Cells == [k \in 1..(GridN * GridN) |-> <<(k - 1) \div GridN, (k - 1) % GridN>>]
CellSet == { Cells[k] : k \in 1..Len(Cells) }

\* the quadrant of a cell (row, col) (lines 280-291)
Quad(loc, half) ==
    LET y == loc[1]
        x == loc[2]
    IN  IF x < half THEN (IF y < half THEN 0 ELSE 1)
        ELSE (IF y < half THEN 2 ELSE 3)

RECURSIVE Flatten(_, _)
Flatten(ss, k) == IF k > Len(ss) THEN <<>> ELSE ss[k] \o Flatten(ss, k + 1)

RECURSIVE Filter(_, _, _, _, _)
Filter(heap, roster, kind, quad, k) ==
    IF k > Len(roster) THEN <<>>
    ELSE LET p == heap[roster[k]]
             rest == Filter(heap, roster, kind, quad, k + 1)
         IN  IF p.kind = kind /\ plan_available_in_my_area(p, quad)
             THEN << <<roster[k]>> >> \o rest ELSE rest

\* the candidate lists prep_bundles builds from the picked operators
Candidates(isps, heap, quad, mob, wifi) ==
    LET mobile_plans == Flatten([k \in 1..Len(mob) |-> Filter(heap, isps[mob[k]].roster, "mobile", quad, 1)], 1)
        wifi_plans == Flatten([k \in 1..Len(wifi) |-> Filter(heap, isps[wifi[k]].roster, "wifi", quad, 1)], 1)
        nw == Len(wifi_plans)
    IN  [bundles |-> [k \in 1..(Len(mobile_plans) * nw) |->
                        <<mobile_plans[((k - 1) \div nw) + 1], wifi_plans[((k - 1) % nw) + 1]>>],
         mobile_plans |-> mobile_plans,
         wifi_plans |-> wifi_plans]

\* prep_bundles followed by decide_bundle for the household at loc: the set
\* of [ok, bundle, r] outcomes
Decide(isps, heap, oploc, loc, income, bundle, pp, r, initial_call) ==
    UNION {
        IF ~o.ok THEN { [ok |-> FALSE, bundle |-> bundle, r |-> o.r] }
        ELSE LET c == Candidates(isps, heap, Quad(loc, Half), o.mob, o.wifi)
             IN  { [ok |-> TRUE, bundle |-> b.bundle, r |-> b.r] :
                   b \in decide_bundle(heap, income, bundle, c.bundles, c.mobile_plans,
                                       c.wifi_plans, pp, o.r, initial_call) }
        : o \in pick_operators(isps, Quad(loc, Half), oploc, pp.TimeBudget, pp.MarketingBudget, r) }

-----------------------------------------------------------------------------
(* Firm economics.                                                         *)

\* wifi_wholesale_cost with the tier test speed < speeds[tier]
wifi_wholesale_cost_below(speed) ==
    LET speeds == <<12, 25, 50, 100, 250, 1000>>
        prices == <<12, 26, 50, 55, 60, 70>>
        hit == { t \in 1..Len(speeds) : speed < speeds[t] }
    IN  IF hit = {} THEN None
        ELSE RInt(prices[CHOOSE t \in hit : \A t2 \in hit : t <= t2])

\* wifi_wholesale_cost(speed): None above the last tier
wifi_wholesale_cost(speed) ==
    LET speeds == <<12, 25, 50, 100, 250, 1000>>
        prices == <<12, 26, 50, 55, 60, 70>>
        hit == { t \in 1..Len(speeds) : speed <= speeds[t] }
    IN  IF hit = {} THEN None
        ELSE RInt(prices[CHOOSE t \in hit : \A t2 \in hit : t <= t2])

NF(isps) == Cardinality(DOMAIN isps)

\* the index the name lookup of lines 1277-1281 leaves in mobile_index or
\* wifi_index: the last firm of that name, else the value it already had
Lookup(isps, name, old) ==
    LET hit == { f \in DOMAIN isps : isps[f].name = name }
    IN  IF hit = {} THEN old ELSE CHOOSE f \in hit : \A g \in hit : g <= f

Unbound == -2
NoIndex == -1

\* step 1 of update_ISP_profits_and_moneypool over the cells k..: the sales
\* of every populated household.  mi and wi are mobile_index and wifi_index,
\* which survive from one cell to the next.  The result is [ok, profits].
RECURSIVE Sales(_, _, _, _, _, _, _, _)
Sales(isps, heap, g, pp, k, profits, mi, wi) ==
    IF k > Len(Cells) THEN [ok |-> TRUE, profits |-> profits]
    ELSE IF ~g[Cells[k]].populated THEN Sales(isps, heap, g, pp, k + 1, profits, mi, wi)
    ELSE
    LET b == g[Cells[k]].bundle
        mi2 == IF IsNone(b[1]) THEN NoIndex ELSE Lookup(isps, P(heap, b[1]).name, mi)
        wi2 == IF IsNone(b[2]) THEN NoIndex ELSE Lookup(isps, P(heap, b[2]).name, wi)
        add(pr, f, x) == [pr EXCEPT ![f] = RAdd(@, x)]
        \* mobile revenue
        mp == P(heap, b[1])
        markup == IF mi2 \in 0..3 THEN pp.LargeMarkup ELSE pp.SmallMarkup
        mexp == RDiv(mp.price, RDiv(markup, RInt(100)))
        p1 == IF mi2 = NoIndex THEN profits ELSE add(profits, mi2, RSub(mp.price, mexp))
        needs == IF mi2 = NoIndex THEN {}
                 ELSE IF mp.sup = "Telstra" THEN {0}
                 ELSE IF mp.sup = "Optus" THEN {2}
                 ELSE IF mp.sup = "TPG" THEN {1, 3}
                 ELSE {}
        p2 == IF mi2 = NoIndex THEN p1
              ELSE IF mp.sup = "Telstra" THEN add(p1, 0, mexp)
              ELSE IF mp.sup = "Optus" THEN add(p1, 2, mexp)
              ELSE IF mp.sup = "TPG"
                   THEN add(add(p1, 1, RMul(Rat(1, 2), mexp)), 3, RMul(Rat(1, 2), mexp))
              ELSE p1
        \* wifi revenue
        wp == P(heap, b[2])
        wexp == wifi_wholesale_cost(wp.cap)
        p3 == IF wi2 = NoIndex THEN p2 ELSE add(p2, wi2, RSub(wp.price, wexp))
    IN  IF mi2 = Unbound \/ wi2 = Unbound THEN [ok |-> FALSE, profits |-> profits]
        ELSE IF ~(needs \subseteq DOMAIN isps) THEN [ok |-> FALSE, profits |-> profits]
        ELSE IF wi2 # NoIndex /\ wexp = None THEN [ok |-> FALSE, profits |-> profits]
        ELSE Sales(isps, heap, g, pp, k + 1, p3, mi2, wi2)

\* the marketing spend of step 2 (lines 1322-1326)
marketing_expenditure(isp, MarketingBudget) ==
    IF isp.profit = RZero THEN RMul(MarketingBudget, isp.moneypool)
    ELSE RMul(MarketingBudget, isp.profit)

\* step 2: the fixed costs of firm f (lines 1312-1335)
total_expenditure(isps, f, pp) ==
    LET isp == isps[f]
        locations_operational ==
            (IF isp.mobile_offered THEN Cardinality(isp.mobile_locs) ELSE 0)
            + (IF isp.wifi_offered THEN Cardinality(isp.wifi_locs) ELSE 0)
        reseller_operation_cost == RMul(pp.ResellerOperatingFee, RInt(locations_operational))
        fee == RMul(pp.WholesalerOperatingFee, RInt(Cardinality(isp.mobile_locs)))
    IN  RAdd(RAdd(reseller_operation_cost, marketing_expenditure(isp, pp.MarketingBudget)),
             IF f \in {0, 2} THEN fee
             ELSE IF f \in {1, 3} THEN RMul(Rat(1, 2), fee)
             ELSE RZero)

\* update_ISP_profits_and_moneypool: [ok, isps]; ok is FALSE when it raises
\* (an unbound index, a supplier slot beyond the firm list, a speed above
\* the last tier, len() of the None location list of a firm without mobile)
update_ISP_profits_and_moneypool(isps, heap, g, pp) ==
    LET zero == [f \in DOMAIN isps |-> RZero]
        s == Sales(isps, heap, g, pp, 1, zero, Unbound, Unbound)
        nomobile == { f \in DOMAIN isps : f \in 0..3 /\ ~isps[f].mobile_offered }
    IN  IF ~s.ok \/ nomobile # {} THEN [ok |-> FALSE, isps |-> isps]
        ELSE [ok |-> TRUE,
              isps |-> [f \in DOMAIN isps |->
                          LET profit == RSub(s.profits[f], total_expenditure(isps, f, pp))
                          IN  [isps[f] EXCEPT !.profit = profit,
                                              !.moneypool = RAdd(@, RMul(Rat(5, 100), profit))]]]

RECURSIVE RemoveFirst(_, _)
RemoveFirst(s, x) ==
    IF s = <<>> THEN <<>>
    ELSE IF Head(s) = x THEN Tail(s)
    ELSE <<Head(s)>> \o RemoveFirst(Tail(s), x)

\* check_for_bankruptcy with the break of line 1367 leaving both loops: a
\* bankrupt firm is taken out of the first quadrant that lists it only
RECURSIVE BankruptcyFirstQuadrantOnly(_, _, _)
BankruptcyFirstQuadrantOnly(isps, oploc, firm) ==
    IF firm >= NF(isps) THEN oploc
    ELSE LET listed == { q \in DOMAIN oploc : \E k \in 1..Len(oploc[q]) : oploc[q][k] = firm }
             first == CHOOSE q \in listed : \A q2 \in listed : q <= q2
         IN  BankruptcyFirstQuadrantOnly(isps,
                 IF RLe(isps[firm].moneypool, RZero) /\ listed # {}
                 THEN [oploc EXCEPT ![first] = RemoveFirst(@, firm)]
                 ELSE oploc,
                 firm + 1)

\* check_for_bankruptcy: the quadrant indices without the firms whose
\* moneypool is <= 0
RECURSIVE check_for_bankruptcy(_, _, _)
check_for_bankruptcy(isps, oploc, firm) ==
    IF firm >= NF(isps) THEN oploc
    ELSE check_for_bankruptcy(isps,
             IF RLe(isps[firm].moneypool, RZero)
             THEN [q \in DOMAIN oploc |-> RemoveFirst(oploc[q], firm)]
             ELSE oploc,
             firm + 1)

-----------------------------------------------------------------------------
(* Price experiments.  An experiment record is None or <<record>>.          *)

\* Python's s[:k] and s[k:]
Take(s, k) == SubSeq(s, 1, IF k < Len(s) THEN k ELSE Len(s))
Drop(s, k) == SubSeq(s, (IF k < Len(s) THEN k ELSE Len(s)) + 1, Len(s))

\* the loops of min_price_allowed over the firm's plans (lines 1433-1437, 1446-1450)
RECURSIVE LowersFloor(_, _, _, _, _)
LowersFloor(heap, roster, target, k, floor) ==
    IF k > Len(roster) THEN floor
    ELSE LET plan == heap[roster[k]]
             same == IF target.kind = "wifi"
                     THEN plan.name # "PLAN GONE" /\ plan.kind = "wifi" /\ plan.loc = target.loc
                     ELSE plan.name # "PLAN GONE" /\ plan.kind = "mobile"
         IN  LowersFloor(heap, roster, target, k + 1,
                 IF same /\ plan.cap < target.cap /\ RGt(plan.price, floor)
                 THEN RAdd(plan.price, RInt(1)) ELSE floor)

\* min_price_allowed(plans, target); None when no tier holds the speed
\* (the read of the unbound name tier raises)
min_price_allowed(heap, roster, target) ==
    IF target.kind = "wifi"
    THEN LET tiers == <<15, 25, 50, 100, 250, 1000>>
             wholesale_prices == <<12, 26, 50, 55, 60, 70>>
             hit == { t \in 1..Len(tiers) : tiers[t] >= target.cap }
             tier == CHOOSE t \in hit : \A t2 \in hit : t <= t2
             min_price_based_on_wholesale == RInt(wholesale_prices[tier] + 1)
             min_price_based_on_lowers == LowersFloor(heap, roster, target, 1, RZero)
         IN  IF hit = {} THEN None
             ELSE IF RGe(min_price_based_on_wholesale, min_price_based_on_lowers)
             THEN min_price_based_on_wholesale ELSE min_price_based_on_lowers
    ELSE LowersFloor(heap, roster, target, 1, RZero)

\* the filter of lines 1393-1396: the for loop runs over the original list
\* 0..n-1 while choices is rebound to a copy without its position "choice"
RECURSIVE PriceChoicesLoop(_, _, _, _)
PriceChoicesLoop(heap, roster, choice, choices) ==
    IF choice >= Len(roster) THEN choices
    ELSE PriceChoicesLoop(heap, roster, choice + 1,
             IF heap[roster[choice + 1]].name = "PLAN GONE"
             THEN Take(choices, choice) \o Drop(choices, choice + 1)
             ELSE choices)

PriceChoices(heap, roster) ==
    PriceChoicesLoop(heap, roster, 0, [k \in 1..Len(roster) |-> k - 1])

\* the world the firm-side reviews work on: the firms, the plan heap, the
\* draw source, the recorded pre-experiment prices and the replacements list
World(isps, heap, r, orig, repl) ==
    [ok |-> TRUE, hung |-> FALSE, isps |-> isps, heap |-> heap, r |-> r,
     orig |-> orig, repl |-> repl]

Failed(w) == [w EXCEPT !.ok = FALSE]
Hung(w) == [w EXCEPT !.ok = FALSE, !.hung = TRUE]

\* the start of a price experiment for firm isp (lines 1393-1415), after
\* the draw that decided to start one
StartPriceExperiment(w, isp, pp) ==
    LET roster == w.isps[isp].roster
        choices == PriceChoices(w.heap, roster)
    IN  IF Len(choices) = 0 THEN { Failed([w EXCEPT !.r = Skip(w.r)]) }
        ELSE UNION {
            LET targeted_plan == choices[c[1]]
                id == roster[targeted_plan + 1]
                current_price == w.heap[id].price
            IN  { LET cut == ULt(d[1], Rat(1, 2))
                      change == IF cut THEN RNeg(pp.PercentPriceChange) ELSE pp.PercentPriceChange
                      new_price == RAdd(current_price, RMul(change, current_price))
                      floor == min_price_allowed(w.heap, roster, w.heap[id])
                  IN  IF cut /\ floor = None THEN Failed([w EXCEPT !.r = d[2]])
                      ELSE IF cut /\ RLt(new_price, floor) THEN [w EXCEPT !.r = d[2]]
                      ELSE [w EXCEPT !.r = d[2],
                                     !.heap[id].price = new_price,
                                     !.orig[isp] = current_price,
                                     !.isps[isp].price_exp =
                                         << [plan |-> id, idx |-> targeted_plan, change |-> change,
                                             months_left |-> pp.LenPriceExp,
                                             prev_profit |-> w.isps[isp].profit] >>]
                  : d \in Draw(c[2], U) }
            : c \in Draw(w.r, 1..Len(choices)) }

\* the review without line 1384: the record outlives its review
ReviewKeepsRecord(w, isp) ==
    LET price_exp == w.isps[isp].price_exp[1]
        id == w.isps[isp].roster[price_exp.idx + 1]
    IN  IF price_exp.months_left = 0
        THEN IF RLe(w.isps[isp].profit, price_exp.prev_profit)
             THEN [w EXCEPT !.heap[id].price = RDiv(@, RAdd(RInt(1), price_exp.change))]
             ELSE w
        ELSE [w EXCEPT !.isps[isp].price_exp[1].months_left = @ - 1]

\* the review of a running price experiment (lines 1380-1387)
ReviewPriceExperiment(w, isp) ==
    LET price_exp == w.isps[isp].price_exp[1]
        id == w.isps[isp].roster[price_exp.idx + 1]
    IN  IF price_exp.months_left = 0
        THEN LET reverted == IF RLe(w.isps[isp].profit, price_exp.prev_profit)
                             THEN [w EXCEPT !.heap[id].price = RDiv(@, RAdd(RInt(1), price_exp.change))]
                             ELSE w
             IN  [reverted EXCEPT !.isps[isp].price_exp = None]
        ELSE [w EXCEPT !.isps[isp].price_exp[1].months_left = @ - 1]

\* the body for firm isp with line 1389 testing the price record alone
PriceFirmAnyTime(w, isp, pp) ==
    IF ~RGt(w.isps[isp].moneypool, RZero) THEN { w }
    ELSE IF w.isps[isp].price_exp # None THEN { ReviewPriceExperiment(w, isp) }
    ELSE UNION { IF ULt(d[1], pp.PrPriceExp)
                 THEN StartPriceExperiment([w EXCEPT !.r = d[2]], isp, pp)
                 ELSE { [w EXCEPT !.r = d[2]] }
                 : d \in Draw(w.r, U) }

\* the body of review_price_experiments for firm isp (lines 1377-1415)
PriceFirm(w, isp, pp) ==
    IF ~RGt(w.isps[isp].moneypool, RZero) THEN { w }
    ELSE IF w.isps[isp].price_exp # None THEN { ReviewPriceExperiment(w, isp) }
    ELSE IF w.isps[isp].tech_exp = None
    THEN UNION { IF ULt(d[1], pp.PrPriceExp)
                 THEN StartPriceExperiment([w EXCEPT !.r = d[2]], isp, pp)
                 ELSE { [w EXCEPT !.r = d[2]] }
                 : d \in Draw(w.r, U) }
    ELSE { w }

\* the loop "for isp in range(len(ISPs))" of line 1376, over the outcomes of
\* the firms before isp
RECURSIVE PriceFirms(_, _, _)
PriceFirms(ws, isp, pp) ==
    IF \A w \in ws : isp >= NF(w.isps) THEN ws
    ELSE LET next == UNION { IF w.ok THEN PriceFirm(w, isp, pp) ELSE { w } : w \in ws }
         IN  IF Cardinality(next) = 0 THEN {} ELSE PriceFirms(next, isp + 1, pp)

review_price_experiments(w, pp) == PriceFirms({ w }, 0, pp)

-----------------------------------------------------------------------------
(* Plan experiments.                                                       *)

\* the loop of lines 1541-1553 that keeps every dearer plan it meets
RECURSIVE ReplacementLoopDearest(_, _, _, _, _, _, _)
ReplacementLoopDearest(heap, roster, repls, k, exp_price, best_price, current_best_index) ==
    IF k > Len(repls) THEN current_best_index
    ELSE LET replacement == repls[k]
             new_price == heap[roster[replacement + 1]].price
         IN  IF RGt(new_price, best_price)
             THEN ReplacementLoopDearest(heap, roster, repls, k + 1, exp_price, new_price, replacement)
             ELSE ReplacementLoopDearest(heap, roster, repls, k + 1, exp_price, best_price, current_best_index)

\* the plan choose_plan_to_remove pushes the users onto (lines 1536-1554):
\* the roster index left in current_best_index, -1 for none
RECURSIVE ReplacementLoop(_, _, _, _, _, _, _)
ReplacementLoop(heap, roster, repls, k, exp_price, best_price, current_best_index) ==
    IF k > Len(repls) THEN current_best_index
    ELSE LET replacement == repls[k]
             new_price == heap[roster[replacement + 1]].price
             take == IF RGt(best_price, exp_price)
                     THEN RLt(new_price, best_price) /\ RGt(new_price, exp_price)
                     ELSE RGt(new_price, best_price)
         IN  IF take
             THEN ReplacementLoop(heap, roster, repls, k + 1, exp_price, new_price, replacement)
             ELSE ReplacementLoop(heap, roster, repls, k + 1, exp_price, best_price, current_best_index)

\* the list comprehensions of lines 1520-1523 and 1531-1535: the indices
\* (from 0) at which the sequence of tests holds
RECURSIVE SelectIdx(_, _)
SelectIdx(tests, k) ==
    IF k >= Len(tests) THEN <<>>
    ELSE (IF tests[k + 1] THEN <<k>> ELSE <<>>) \o SelectIdx(tests, k + 1)

\* choose_plan_to_remove(isp, LenPlanExp, Seed): the set of
\* [plan_exp, replacement, r] results; plan_exp is None when the firm has no
\* wifi plan
choose_plan_to_remove(heap, isp, LenPlanExp, r) ==
    LET roster == isp.roster
        IsWifi(k) == heap[roster[k + 1]].kind = "wifi"
        choices == SelectIdx([k \in 1..Len(roster) |-> IsWifi(k - 1)], 0)
    IN  IF Len(choices) = 0 THEN { [plan_exp |-> None, replacement |-> None, r |-> Skip(r)] }
        ELSE { LET experiment == choices[d[1]]
                   target == heap[roster[experiment + 1]]
                   SameArea(k) == /\ IsWifi(k) /\ k # experiment
                                  /\ heap[roster[k + 1]].loc = target.loc
                   repls == SelectIdx([k \in 1..Len(roster) |-> SameArea(k - 1)], 0)
                   best == ReplacementLoop(heap, roster, repls, 1, target.price, RInt(-1), -1)
               IN  [plan_exp |-> << [plan |-> target, idx |-> experiment, added |-> 0,
                                     months_left |-> LenPlanExp, prev_profit |-> isp.profit] >>,
                    replacement |-> IF best = -1 THEN None ELSE <<best>>,
                    r |-> d[2]]
               : d \in Draw(r, 1..Len(choices)) }

\* the filter of choose_plan_to_add (lines 1572-1596): the competitor's plan
\* ids that survive one pass per own plan
RECURSIVE PossLoop(_, _, _, _, _)
PossLoop(heap, own, p1, poss, p2) ==
    IF p1 > Len(own) THEN poss
    ELSE IF p2 > Len(poss) THEN PossLoop(heap, own, p1 + 1, poss, 1)
    ELSE LET cand == heap[poss[p2]]
             mine == heap[own[p1]]
             speed == cand.cap
             drop == \/ cand.name = "PLAN GONE"
                     \/ cand.kind = "mobile"
                     \/ /\ mine.kind = "wifi" /\ cand.kind = "wifi"
                        /\ 6 * speed < 10 * mine.cap /\ 10 * mine.cap < 14 * speed
                        /\ mine.loc = cand.loc
         IN  IF drop THEN PossLoop(heap, own, p1, RemoveAt(poss, p2), p2)
             ELSE PossLoop(heap, own, p1, poss, p2 + 1)

\* choose_plan_to_add(ISPs, isp, LenPlanExp, Seed): the set of
\* [ok, hung, plan_exp, r, redraw] results.  redraw is how many more draws of
\* an ineligible competitor the model follows; with no eligible competitor
\* the while loop of line 1565 never ends (hung).
RECURSIVE choose_plan_to_add(_, _, _, _, _, _)
choose_plan_to_add(isps, heap, isp, LenPlanExp, r, redraw) ==
    LET eligible == { c \in DOMAIN isps :
                        isps[c].name # isps[isp].name /\ RGt(isps[c].moneypool, RZero) }
    IN  IF eligible = {}
        THEN { [ok |-> FALSE, hung |-> TRUE, plan_exp |-> None, r |-> r, redraw |-> redraw] }
        ELSE UNION {
            IF d[1] \notin eligible
            THEN IF redraw = 0 THEN {}
                 ELSE choose_plan_to_add(isps, heap, isp, LenPlanExp, d[2], redraw - 1)
            ELSE LET possibilities == PossLoop(heap, isps[isp].roster, 1, isps[d[1]].roster, 1)
                 IN  IF Len(possibilities) = 0
                     THEN { [ok |-> TRUE, hung |-> FALSE, plan_exp |-> None, r |-> d[2],
                             redraw |-> redraw] }
                     ELSE { [ok |-> TRUE, hung |-> FALSE,
                             plan_exp |-> << [plan |-> [heap[possibilities[e[1] + 1]]
                                                          EXCEPT !.name = isps[isp].name],
                                              idx |-> e[1], added |-> 1,
                                              months_left |-> LenPlanExp,
                                              prev_profit |-> isps[isp].profit] >>,
                             r |-> e[2], redraw |-> redraw]
                            : e \in Draw(d[2], 0..(Len(possibilities) - 1)) }
            : d \in Draw(r, DOMAIN isps) }

\* how many draws of an ineligible competitor one plan review is followed through
MaxRedraw == 1

\* one pass of the while loop of lines 1504-1506 over the outcomes so far;
\* an outcome is [w, plan_exp, redraw], still looping while plan_exp is None
Attempt(as, isp, pp) ==
    UNION { IF ~a.w.ok \/ a.plan_exp # None THEN { a }
            ELSE { [w |-> IF c.hung THEN Hung([a.w EXCEPT !.r = c.r]) ELSE [a.w EXCEPT !.r = c.r],
                    plan_exp |-> c.plan_exp, redraw |-> c.redraw]
                   : c \in choose_plan_to_add(a.w.isps, a.w.heap, isp, pp.LenPlanExp, a.w.r, a.redraw) }
            : a \in as }

\* n passes
RECURSIVE Attempts(_, _, _, _)
Attempts(as, isp, pp, n) ==
    IF n = 1 THEN Attempt(as, isp, pp)
    ELSE LET first == Attempts(as, isp, pp, n \div 2)
         IN  IF Cardinality(first) = 0 THEN {} ELSE Attempts(first, isp, pp, n - (n \div 2))

\* the addition of a plan (lines 1502-1509): up to 50 calls of choose_plan_to_add
AddAttempts(w, isp, pp) ==
    { IF ~a.w.ok \/ a.plan_exp = None THEN a.w
      ELSE [a.w EXCEPT !.heap = Append(@, a.plan_exp[1].plan),
                       !.isps[isp].roster = Append(@, Len(a.w.heap) + 1),
                       !.isps[isp].tech_exp = a.plan_exp]
      : a \in Attempts({ [w |-> w, plan_exp |-> None, redraw |-> Redraws(w.r, MaxRedraw)] }, isp, pp, 50) }

\* the start of a removal (lines 1492-1498)
StartRemoval(w, isp, pp) ==
    { IF c.plan_exp = None THEN [w EXCEPT !.r = c.r]
      ELSE LET targeted_plan == c.plan_exp[1].idx
               id == w.isps[isp].roster[targeted_plan + 1]
           IN  [w EXCEPT !.r = c.r,
                         !.heap[id].name = "PLAN GONE",
                         !.heap[id].kind = "index",
                         !.heap[id].ri = Len(w.repl),
                         !.isps[isp].tech_exp = c.plan_exp,
                         !.repl = Append(@, <<isp, c.replacement>>)]
      : c \in choose_plan_to_remove(w.heap, w.isps[isp], pp.LenPlanExp, w.r) }

\* the review of a plan experiment that puts a removed plan's name back and
\* leaves its second field as it is
ReviewPlanExperimentNameOnly(w, isp) ==
    LET plan_exp == w.isps[isp].tech_exp[1]
        roster == w.isps[isp].roster
        id == roster[plan_exp.idx + 1]
    IN  IF plan_exp.months_left = 0
        THEN LET reverted ==
                     IF RLe(w.isps[isp].profit, plan_exp.prev_profit)
                     THEN IF plan_exp.added = 1
                          THEN [w EXCEPT !.isps[isp].roster = Take(roster, Len(roster) - 1)]
                          ELSE [w EXCEPT !.heap[id].name = plan_exp.plan.name]
                     ELSE w
             IN  [reverted EXCEPT !.isps[isp].tech_exp = None]
        ELSE [w EXCEPT !.isps[isp].tech_exp[1].months_left = @ - 1]

\* the review of a running plan experiment (lines 1465-1481)
ReviewPlanExperiment(w, isp) ==
    LET plan_exp == w.isps[isp].tech_exp[1]
        roster == w.isps[isp].roster
        id == roster[plan_exp.idx + 1]
    IN  IF plan_exp.months_left = 0
        THEN LET reverted ==
                     IF RLe(w.isps[isp].profit, plan_exp.prev_profit)
                     THEN IF plan_exp.added = 1
                          THEN [w EXCEPT !.isps[isp].roster = Take(roster, Len(roster) - 1)]
                          ELSE [w EXCEPT !.heap[id].name = plan_exp.plan.name,
                                         !.heap[id].kind = "wifi",
                                         !.heap[id].ri = NoIndex]
                     ELSE w
             IN  [reverted EXCEPT !.isps[isp].tech_exp = None]
        ELSE [w EXCEPT !.isps[isp].tech_exp[1].months_left = @ - 1]

\* the body of review_plan_experiments for firm isp (lines 1462-1509)
PlanFirm(w, isp, pp) ==
    IF ~RGt(w.isps[isp].moneypool, RZero) THEN { w }
    ELSE IF w.isps[isp].tech_exp # None THEN { ReviewPlanExperiment(w, isp) }
    ELSE IF w.isps[isp].price_exp = None
    THEN UNION {
            IF ULt(d[1], pp.PrPlanExp) /\ w.isps[isp].wifi_offered
            THEN UNION { IF UGt(e[1], Rat(1, 2))
                         THEN StartRemoval([w EXCEPT !.r = e[2]], isp, pp)
                         ELSE AddAttempts([w EXCEPT !.r = e[2]], isp, pp)
                         : e \in Draw(d[2], U) }
            ELSE { [w EXCEPT !.r = d[2]] }
            : d \in Draw(w.r, U) }
    ELSE { w }

\* review_plan_experiments: replacements starts empty at every call
\* the loop "for isp in range(len(ISPs))" of line 1461
RECURSIVE PlanFirms(_, _, _)
PlanFirms(ws, isp, pp) ==
    IF \A w \in ws : isp >= NF(w.isps) THEN ws
    ELSE LET next == UNION { IF w.ok THEN PlanFirm(w, isp, pp) ELSE { w } : w \in ws }
         IN  IF Cardinality(next) = 0 THEN {} ELSE PlanFirms(next, isp + 1, pp)

review_plan_experiments(w, pp) == PlanFirms({ [w EXCEPT !.repl = <<>>] }, 0, pp)

-----------------------------------------------------------------------------
(* The household side of a month.                                          *)

\* the state all_agents_updates threads through its loop over the cells;
\* income is the local variable of that name (None while unbound)
Agents(g, dsc, sw, r) ==
    [ok |-> TRUE, g |-> g, dsc |-> dsc, sw |-> sw, r |-> r, income |-> None, n |-> 0]

\* lines 1701-1706 without the test of line 1702
SwitchingCostUnguarded(a, c, SwitchingCostIncrease) ==
    [a EXCEPT !.dsc[c] = IF a.sw[c] = 0 THEN RAdd(@, SwitchingCostIncrease) ELSE RZero,
              !.sw[c] = 0]

\* lines 1701-1706 without the else branch of lines 1704-1705
SwitchingCostNoReset(a, c, SwitchingCostIncrease) ==
    [a EXCEPT !.dsc[c] = IF a.sw[c] = 0 /\ RLt(@, RInt(1))
                         THEN RAdd(@, SwitchingCostIncrease) ELSE @,
              !.sw[c] = 0]

\* lines 1701-1706
SwitchingCostUpdate(a, c, SwitchingCostIncrease) ==
    [a EXCEPT !.dsc[c] = IF a.sw[c] = 0
                         THEN (IF RLt(@, RInt(1)) THEN RAdd(@, SwitchingCostIncrease) ELSE @)
                         ELSE RZero,
              !.sw[c] = 0]

\* the body of all_agents_updates without lines 1711-1719: a retired plan
\* is left where it is
AgentCellLeavesRetired(isps, heap, oploc, repl, pp, a0, c) ==
    LET a == SwitchingCostUpdate(a0, c, pp.SwitchingCostIncrease)
        bundle == a.g[c].bundle
        connected == bundle # <<None, None>>
        gone == FALSE
        ri == P(heap, bundle[2]).ri
        missing == gone /\ (ri < 0 \/ ri >= Len(repl))
        replacement == repl[ri + 1]
        bundle2 == IF ~gone THEN bundle
                   ELSE IF IsNone(replacement[2]) THEN <<bundle[1], None>>
                   ELSE <<bundle[1], <<isps[replacement[1]].roster[replacement[2][1] + 1]>> >>
        income == IF connected THEN <<a.g[c].income>> ELSE a.income
        percent_spent_on_bundle == decide_expenditure(heap, bundle2, a.g[c].income)
        bundle_update_trigger ==
            \/ ~connected
            \/ gone /\ IsNone(replacement[2])
            \/ percent_spent_on_bundle = None
            \/ RGe(percent_spent_on_bundle, RMul(pp.IncomeBudget, RInt(100)))
    IN  IF missing THEN { [a EXCEPT !.ok = FALSE] }
        ELSE IF ~bundle_update_trigger
        THEN { [a EXCEPT !.g[c].bundle = bundle2,
                         !.g[c].spent = percent_spent_on_bundle,
                         !.income = income] }
        ELSE UNION {
            IF ~o.ok \/ income = None
            THEN { [a EXCEPT !.ok = FALSE, !.r = o.r, !.g[c].bundle = bundle2, !.income = income] }
            ELSE { [a EXCEPT !.g[c].bundle = o.bundle,
                             !.g[c].spent = decide_expenditure(heap, o.bundle, income[1]),
                             !.sw[c] = 1,
                             !.n = @ + 1,
                             !.r = o.r,
                             !.income = income] }
            : o \in Decide(isps, heap, oploc, c, a.g[c].income, bundle2, pp, a.r, FALSE) }

\* the body of all_agents_updates for the populated cell c (lines 1700-1742)
AgentCell(isps, heap, oploc, repl, pp, a0, c) ==
    LET a == SwitchingCostUpdate(a0, c, pp.SwitchingCostIncrease)
        bundle == a.g[c].bundle
        connected == bundle # <<None, None>>
        gone == connected /\ ~IsNone(bundle[2]) /\ P(heap, bundle[2]).name = "PLAN GONE"
        ri == P(heap, bundle[2]).ri
        missing == gone /\ (ri < 0 \/ ri >= Len(repl))
        replacement == repl[ri + 1]
        bundle2 == IF ~gone THEN bundle
                   ELSE IF IsNone(replacement[2]) THEN <<bundle[1], None>>
                   ELSE <<bundle[1], <<isps[replacement[1]].roster[replacement[2][1] + 1]>> >>
        income == IF connected THEN <<a.g[c].income>> ELSE a.income
        percent_spent_on_bundle == decide_expenditure(heap, bundle2, a.g[c].income)
        bundle_update_trigger ==
            \/ ~connected
            \/ gone /\ IsNone(replacement[2])
            \/ percent_spent_on_bundle = None
            \/ RGe(percent_spent_on_bundle, RMul(pp.IncomeBudget, RInt(100)))
    IN  IF missing THEN { [a EXCEPT !.ok = FALSE] }
        ELSE IF ~bundle_update_trigger
        THEN { [a EXCEPT !.g[c].bundle = bundle2,
                         !.g[c].spent = percent_spent_on_bundle,
                         !.income = income] }
        ELSE UNION {
            IF ~o.ok \/ income = None
            THEN { [a EXCEPT !.ok = FALSE, !.r = o.r, !.g[c].bundle = bundle2, !.income = income] }
            ELSE { [a EXCEPT !.g[c].bundle = o.bundle,
                             !.g[c].spent = decide_expenditure(heap, o.bundle, income[1]),
                             !.sw[c] = 1,
                             !.n = @ + 1,
                             !.r = o.r,
                             !.income = income] }
            : o \in Decide(isps, heap, oploc, c, a.g[c].income, bundle2, pp, a.r, FALSE) }

RECURSIVE AgentLoop(_, _, _, _, _, _, _)
AgentLoop(isps, heap, oploc, repl, pp, as, k) ==
    IF k > Len(Cells) THEN as
    ELSE LET next == UNION { IF a.ok /\ a.g[Cells[k]].populated
                             THEN AgentCell(isps, heap, oploc, repl, pp, a, Cells[k])
                             ELSE { a } : a \in as }
         IN  IF Cardinality(next) = 0 THEN {}
             ELSE AgentLoop(isps, heap, oploc, repl, pp, next, k + 1)

\* all_agents_updates: the set of [ok, g, dsc, sw, r, income, n] outcomes
all_agents_updates(isps, heap, oploc, repl, pp, g, dsc, sw, r) ==
    AgentLoop(isps, heap, oploc, repl, pp, { Agents(g, dsc, sw, r) }, 1)

\* how many iterations of choose_contemplators that hit an empty cell, or a
\* cell already chosen while another is still free, one call is followed through
MaxMiss == 1

InSeq(x, sq) == \E k \in 1..Len(sq) : sq[k] = x

\* choose_contemplators: the set of [ok, hung, cont, r] outcomes.  cont holds
\* (x, y) = (column, row) pairs, as line 1782 appends them.  With no
\* populated cell the while loop of line 1766 never ends.
RECURSIVE ContLoop(_, _, _, _, _, _)
ContLoop(g, num, cont, repeats, miss, r) ==
    LET populated == { c \in CellSet : g[c].populated }
        free == { c \in populated : ~InSeq(<<c[2], c[1]>>, cont) }
        again(r2, rep, m) == IF m < 0 THEN {} ELSE ContLoop(g, num, cont, rep, m, r2)
    IN  IF Len(cont) >= num \/ repeats >= 50
        THEN { [ok |-> TRUE, hung |-> FALSE, cont |-> cont, r |-> r] }
        ELSE IF populated = {}
        THEN { [ok |-> FALSE, hung |-> TRUE, cont |-> cont, r |-> r] }
        ELSE UNION { UNION {
            LET cell == <<y[1], x[1]>>
            IN  IF ~g[cell].populated THEN again(x[2], repeats, miss - 1)
                ELSE IF InSeq(<<x[1], y[1]>>, cont)
                THEN again(x[2], repeats + 1, IF free = {} THEN miss ELSE miss - 1)
                ELSE ContLoop(g, num, Append(cont, <<x[1], y[1]>>), repeats, miss, x[2])
            : x \in Draw(y[2], 0..(GridN - 1)) }
            : y \in Draw(r, 0..(GridN - 1)) }

choose_contemplators(num_imaginary_problems, g, r) ==
    IF num_imaginary_problems < 0
    THEN { [ok |-> TRUE, hung |-> FALSE, cont |-> <<>>, r |-> r] }
    ELSE ContLoop(g, IF num_imaginary_problems > GridN * GridN THEN GridN * GridN
                     ELSE num_imaginary_problems,
                  <<>>, 0, Redraws(r, MaxMiss), r)

\* choose_preperators: the set of [prep, r] outcomes; the switching cost read
\* for person (x, y) is dynamic_switching_costs[person[0], person[1]]
RECURSIVE choose_preperators(_, _, _, _, _)
choose_preperators(contemplators, dsc, k, prep, r) ==
    IF k > Len(contemplators) THEN { [prep |-> prep, r |-> r] }
    ELSE LET person == contemplators[k]
             row == person[1]
             cell == person[2]
         IN  UNION { choose_preperators(contemplators, dsc, k + 1,
                         IF UGt(d[1], dsc[<<row, cell>>]) THEN Append(prep, person) ELSE prep,
                         d[2])
                     : d \in Draw(r, U) }

\* stages 3 and 4 for the preparators k.. (lines 2342-2353)
RECURSIVE Act(_, _, _, _, _, _, _)
Act(isps, heap, oploc, pp, preparators, as, k) ==
    IF k > Len(preparators) THEN as
    ELSE LET person == preparators[k]
             c == <<person[2], person[1]>>
             next == UNION { IF ~a.ok THEN { a }
                             ELSE { IF ~o.ok THEN [a EXCEPT !.ok = FALSE, !.r = o.r]
                                    ELSE [a EXCEPT !.g[c].bundle = o.bundle,
                                                   !.g[c].spent = decide_expenditure(heap, o.bundle, a.g[c].income),
                                                   !.sw[c] = 1,
                                                   !.r = o.r]
                                    : o \in Decide(isps, heap, oploc, c, a.g[c].income,
                                                   a.g[c].bundle, pp, a.r, FALSE) }
                             : a \in as }
         IN  IF Cardinality(next) = 0 THEN {}
             ELSE Act(isps, heap, oploc, pp, preparators, next, k + 1)

\* lines 2334-2353: the set of [ok, hung, g, sw, r] outcomes
Contemplate(isps, heap, oploc, pp, g, dsc, sw, num_real, r) ==
    UNION {
        IF ~cs.ok THEN { [ok |-> FALSE, hung |-> cs.hung, g |-> g, sw |-> sw, r |-> cs.r] }
        ELSE UNION {
            { [ok |-> a.ok, hung |-> FALSE, g |-> a.g, sw |-> a.sw, r |-> a.r]
              : a \in Act(isps, heap, oploc, pp, ps.prep, { Agents(g, dsc, sw, ps.r) }, 1) }
            : ps \in choose_preperators(cs.cont, dsc, 1, <<>>, cs.r) }
        : cs \in choose_contemplators(pp.NumDissatisfied - num_real, g, r) }

-----------------------------------------------------------------------------
(* Initialisation.                                                         *)

\* the rows of the plans file, grouped by provider, mobile plans first:
\* name, service type, GB or Mbps, footprint, price, wholesale supplier
Row(name, kind, cap, loc, price, sup) ==
    [name |-> name, kind |-> kind, ri |-> NoIndex, cap |-> cap, loc |-> loc,
     price |-> RInt(price), sup |-> sup]

Catalogue ==
    << Row("Telstra", "mobile", 40, "remote", 20, "Telstra"),
       Row("Telstra", "wifi", 50, "urban", 40, "NBN Co"),
       Row("TPG", "mobile", 100, "remote", 30, "Telstra"),
       Row("TPG", "wifi", 100, "urban", 60, "NBN Co") >>

\* the market shares get_initial_profits normalises
Shares == <<3, 1>>

\* separate_plans_by_ISP: the rosters, as lists of plan ids (row numbers)
RECURSIVE separate_plans_by_ISP(_, _, _, _)
separate_plans_by_ISP(rows, k, current, done) ==
    IF k > Len(rows) THEN Append(done, current)
    ELSE IF rows[k].name = rows[current[1]].name
         THEN separate_plans_by_ISP(rows, k + 1, Append(current, k), done)
         ELSE separate_plans_by_ISP(rows, k + 1, <<k>>, Append(done, current))

\* translate_footprints_into_quads(plans, mobile)
RECURSIVE MobileQuads(_, _, _, _)
MobileQuads(rows, roster, k, acc) ==
    IF k > Len(roster) THEN acc
    ELSE LET p == rows[roster[k]]
         IN  IF p.kind # "mobile" THEN MobileQuads(rows, roster, k + 1, acc)
             ELSE IF p.loc = "remote" THEN {0, 1, 2, 3}
             ELSE MobileQuads(rows, roster, k + 1, IF p.loc = "regional" THEN {0, 1, 2} ELSE {0})

WifiQuads(rows, roster) ==
    UNION { LET p == rows[roster[k]]
            IN  IF p.kind # "wifi" THEN {}
                ELSE IF p.loc = "remote" THEN {1, 2, 3}
                ELSE IF p.loc = "regional" THEN {1, 2}
                ELSE {0}
            : k \in 1..Len(roster) }

translate_footprints_into_quads(rows, roster, mobile) ==
    IF mobile THEN MobileQuads(rows, roster, 1, {}) ELSE WifiQuads(rows, roster)

\* create_ultimate_list_of_ISPs
create_ultimate_list_of_ISPs(rows, separated_plans, InitialMoneyPool) ==
    [i \in 0..(Len(separated_plans) - 1) |->
        LET plans_offered == separated_plans[i + 1]
            mobile_offered == rows[plans_offered[1]].kind = "mobile"
            wifi_offered == rows[plans_offered[Len(plans_offered)]].kind = "wifi"
        IN  [name |-> rows[plans_offered[1]].name,
             roster |-> plans_offered,
             mobile_offered |-> mobile_offered,
             mobile_locs |-> IF mobile_offered
                             THEN translate_footprints_into_quads(rows, plans_offered, TRUE) ELSE {},
             wifi_offered |-> wifi_offered,
             wifi_locs |-> IF wifi_offered
                           THEN translate_footprints_into_quads(rows, plans_offered, FALSE) ELSE {},
             price_exp |-> None,
             tech_exp |-> None,
             profit |-> Rat(Shares[i + 1], SeqSum([k \in 1..Len(Shares) |-> RInt(Shares[k])], 1)[1]),
             moneypool |-> InitialMoneyPool]]

\* define_ISPs_per_location: the firms of each quadrant, in index order
RECURSIVE Ascending(_, _, _)
Ascending(S, lo, hi) ==
    IF lo > hi THEN <<>>
    ELSE (IF lo \in S THEN <<lo>> ELSE <<>>) \o Ascending(S, lo + 1, hi)

define_ISPs_per_location(isps) ==
    [quad \in 0..3 |->
        Ascending({ i \in DOMAIN isps : \/ isps[i].wifi_offered /\ quad \in isps[i].wifi_locs
                                        \/ isps[i].mobile_offered /\ quad \in isps[i].mobile_locs },
                  0, NF(isps) - 1)]

\* the income quartiles initialise_income is followed through, and the
\* incomes random.uniform returns inside each
Quartiles == {1, 3}
IncomesOf(quartile) ==
    IF quartile = 1 THEN {800}
    ELSE IF quartile = 2 THEN {3000}
    ELSE IF quartile = 3 THEN {4000}
    ELSE {6000}

\* how many households the grids followed hold at most
MaxPop == 1

Population(g) == Cardinality({ c \in CellSet : g[c].populated })

Empty == [populated |-> FALSE, income |-> RZero, bundle |-> <<None, None>>, spent |-> None]

\* the body of initialise_grid for one cell (lines 851-864): the set of
\* [ok, g, r] outcomes
InitCell(isps, heap, oploc, pp, w, c) ==
    UNION {
        IF pop[1] = 0 THEN { [w EXCEPT !.r = pop[2]] }
        ELSE UNION { UNION { 
            LET income == RInt(inc[1])
            IN  { IF ~o.ok THEN [w EXCEPT !.ok = FALSE, !.r = o.r]
                  ELSE [w EXCEPT !.r = o.r,
                                 !.g[c] = [populated |-> TRUE, income |-> income,
                                           bundle |-> o.bundle,
                                           spent |-> decide_expenditure(heap, o.bundle, income)]]
                  : o \in Decide(isps, heap, oploc, c, income, <<None, None>>, pp, inc[2], TRUE) }
            : inc \in Draw(q[2], IncomesOf(q[1])) }
            : q \in Draw(pop[2], Quartiles) }
        : pop \in Draw(w.r, IF Population(w.g) < MaxPop THEN {0, 1} ELSE {0}) }

RECURSIVE GridLoop(_, _, _, _, _, _)
GridLoop(isps, heap, oploc, pp, ws, k) ==
    IF k > Len(Cells) THEN ws
    ELSE LET next == UNION { IF w.ok THEN InitCell(isps, heap, oploc, pp, w, Cells[k]) ELSE { w }
                             : w \in ws }
         IN  IF Cardinality(next) = 0 THEN {} ELSE GridLoop(isps, heap, oploc, pp, next, k + 1)

\* initialise_grid: the set of [ok, g, r] outcomes
initialise_grid(isps, heap, oploc, pp, r) ==
    GridLoop(isps, heap, oploc, pp,
             { [ok |-> TRUE, g |-> [c \in CellSet |-> Empty], r |-> r] }, 1)

-----------------------------------------------------------------------------
(* The simulation.                                                         *)

\* the number of months a run with experimenting firms lasts
MaxIter == 2

\* how many months longer a run lasts in which no firm experiments
MoreIter == 2

\* the arguments of run_simulation: a market whose firms experiment, and
\* quiet markets followed for longer
Arguments(PrExp, iters, inc) ==
    [InitialMoneyPool |-> Rat(1, 2), LargeMarkup |-> RInt(200), SmallMarkup |-> RInt(150),
     ResellerOperatingFee |-> RInt(1), WholesalerOperatingFee |-> RInt(1),
     MarketingBudget |-> Rat(1, 2), PrPriceExp |-> PrExp, LenPriceExp |-> 0,
     PercentPriceChange |-> Rat(1, 2), PrPlanExp |-> PrExp, LenPlanExp |-> 0,
     NumDissatisfied |-> 1, SwitchingCostIncrease |-> inc, TimeBudget |-> 1,
     IncomeBudget |-> Rat(1, 10), PrSacrificeWifi |-> Rat(1, 2),
     PrPickBetterValue |-> Rat(1, 2), Seed |-> 7, MaxIter |-> iters]

Busy == Arguments(Rat(1, 2), MaxIter, Rat(1, 2))
Quiet == { Arguments(RZero, MaxIter + MoreIter, inc) : inc \in { Rat(1, 2), Rat(3, 4) } }
\* a market whose operating fees no firm can pay: every firm is bankrupt at
\* the first check
Costly == [Arguments(RZero, MaxIter, Rat(1, 2)) EXCEPT !.ResellerOperatingFee = RInt(10)]
Params == { Busy, Costly } \cup Quiet

\* the draw source as the variables hold it
Gen ==
    [seed |-> Seed, ats |-> add_to_seed, fn |-> stream,
     mode |-> IF run = 0 THEN "free" ELSE "seeded"]

\* what a run has produced by the end of a month
Snapshot == [ISPs |-> ISPs, plans |-> plans, operator_locations |-> operator_locations,
             grid |-> grid, dynamic_switching_costs |-> dynamic_switching_costs,
             switchers |-> switchers]

Stop(w) == IF w.hung THEN "hung" ELSE "crashed"

InitWith(r, PS, G) ==
    /\ pc = "start"
    /\ param \in PS
    /\ ISPs = <<>>
    /\ plans = <<>>
    /\ operator_locations = [quad \in 0..3 |-> <<>>]
    /\ grid = [c \in CellSet |-> Empty]
    /\ dynamic_switching_costs = [c \in CellSet |-> RZero]
    /\ switchers = [c \in CellSet |-> 0]
    /\ replacements = <<>>
    /\ num_real_problems = 0
    /\ month = 0
    /\ Seed = param.Seed
    /\ add_to_seed = 0
    /\ stream \in G
    /\ run = r
    /\ history = <<>>
    /\ exp_orig = <<>>
    /\ fin = None
    /\ fout = None

Init == InitWith(0, Params, { <<>> })

\* the draw source run_simulation starts with, its counter left where the
\* last execution stopped (without line 2368)
UsedGen == [Gen EXCEPT !.seed = param.Seed]

\* the draw source run_simulation starts with (line 2368: add_to_seed = 0)
FreshGen == [Gen EXCEPT !.seed = param.Seed, !.ats = 0]

\* run_simulation up to the first month (lines 2367-2373, 2295-2296)
Initialise ==
    /\ pc = "start"
    /\ LET separated_plans == separate_plans_by_ISP(Catalogue, 2, <<1>>, <<>>)
           isps == create_ultimate_list_of_ISPs(Catalogue, separated_plans, param.InitialMoneyPool)
           oploc == define_ISPs_per_location(isps)
       IN  \E w \in initialise_grid(isps, Catalogue, oploc, param, FreshGen) :
             /\ ISPs' = isps
             /\ plans' = Catalogue
             /\ operator_locations' = oploc
             /\ grid' = w.g
             /\ add_to_seed' = w.r.ats
             /\ stream' = stream
             /\ exp_orig' = [f \in DOMAIN isps |-> None]
             /\ pc' = IF ~w.ok THEN "crashed" ELSE IF param.MaxIter = 0 THEN "done" ELSE "profits"
    /\ Seed' = param.Seed
    /\ month' = 0
    /\ dynamic_switching_costs' = [c \in CellSet |-> RZero]
    /\ switchers' = [c \in CellSet |-> 0]
    /\ replacements' = <<>>
    /\ num_real_problems' = 0
    /\ history' = IF run = 1 THEN <<Snapshot'>> ELSE history
    /\ UNCHANGED <<param, run, fin, fout>>

\* the start of month i: Seed = Seed + 10*i and update_ISP_profits_and_moneypool
UpdateProfits ==
    /\ pc = "profits"
    /\ Seed' = Seed + 10 * month
    /\ LET res == update_ISP_profits_and_moneypool(ISPs, plans, grid, param)
       IN  /\ ISPs' = res.isps
           /\ pc' = IF res.ok THEN "bankruptcy" ELSE "crashed"
    /\ UNCHANGED <<param, plans, operator_locations, grid, dynamic_switching_costs, switchers,
                   replacements, num_real_problems, month, add_to_seed, stream, run, history,
                   exp_orig, fin, fout>>

\* a bankruptcy check that also closes the bankrupt firms: roster emptied,
\* experiments ended
CheckBankruptcyClosesFirms ==
    /\ pc = "bankruptcy"
    /\ operator_locations' = check_for_bankruptcy(ISPs, operator_locations, 0)
    /\ ISPs' = [f \in DOMAIN ISPs |->
                 IF RLe(ISPs[f].moneypool, RZero)
                 THEN [ISPs[f] EXCEPT !.roster = <<>>, !.price_exp = None, !.tech_exp = None]
                 ELSE ISPs[f]]
    /\ pc' = "price"
    /\ UNCHANGED <<param, plans, grid, dynamic_switching_costs, switchers, replacements,
                   num_real_problems, month, Seed, add_to_seed, stream, run, history, exp_orig,
                   fin, fout>>

\* lines 2316-2318: check_for_bankruptcy(ISPs, operator_locations)
CheckBankruptcy ==
    /\ pc = "bankruptcy"
    /\ operator_locations' = check_for_bankruptcy(ISPs, operator_locations, 0)
    /\ pc' = "price"
    /\ UNCHANGED <<param, ISPs, plans, grid, dynamic_switching_costs, switchers, replacements,
                   num_real_problems, month, Seed, add_to_seed, stream, run, history, exp_orig,
                   fin, fout>>

ReviewPrices ==
    /\ pc = "price"
    /\ \E w \in review_price_experiments(World(ISPs, plans, Gen, exp_orig, replacements), param) :
         /\ ISPs' = w.isps
         /\ plans' = w.heap
         /\ add_to_seed' = w.r.ats
         /\ stream' = stream
         /\ exp_orig' = w.orig
         /\ pc' = IF w.ok THEN "plan" ELSE Stop(w)
    /\ UNCHANGED <<param, operator_locations, grid, dynamic_switching_costs, switchers,
                   replacements, num_real_problems, month, Seed, run, history, fin, fout>>

ReviewPlans ==
    /\ pc = "plan"
    /\ \E w \in review_plan_experiments(World(ISPs, plans, Gen, exp_orig, replacements), param) :
         /\ ISPs' = w.isps
         /\ plans' = w.heap
         /\ add_to_seed' = w.r.ats
         /\ stream' = stream
         /\ replacements' = w.repl
         /\ pc' = IF w.ok THEN "agents" ELSE Stop(w)
    /\ UNCHANGED <<param, operator_locations, grid, dynamic_switching_costs, switchers,
                   num_real_problems, month, Seed, run, history, exp_orig, fin, fout>>

AllAgentsUpdates ==
    /\ pc = "agents"
    /\ \E a \in all_agents_updates(ISPs, plans, operator_locations, replacements, param, grid,
                                   dynamic_switching_costs, switchers, Gen) :
         /\ grid' = a.g
         /\ dynamic_switching_costs' = a.dsc
         /\ switchers' = a.sw
         /\ num_real_problems' = a.n
         /\ add_to_seed' = a.r.ats
         /\ stream' = stream
         /\ pc' = IF a.ok THEN "contemplate" ELSE "crashed"
    /\ UNCHANGED <<param, ISPs, plans, operator_locations, replacements, month, Seed, run,
                   history, exp_orig, fin, fout>>

\* the end of the month: the next one, or the end of the run
EndMonth(ok, hung) ==
    /\ pc' = IF hung THEN "hung" ELSE IF ~ok THEN "crashed"
             ELSE IF month + 1 >= param.MaxIter THEN "done" ELSE "profits"
    /\ month' = IF ok THEN month + 1 ELSE month
    /\ history' = IF ok /\ run = 1 THEN Append(history, Snapshot') ELSE history

\* perform_grid_cleaning(grid) (lines 1809-1817)
perform_grid_cleaning(heap, g) ==
    [c \in CellSet |->
        IF g[c].populated
        THEN [g[c] EXCEPT !.spent = decide_expenditure(heap, g[c].bundle, g[c].income)]
        ELSE g[c]]

\* stages 2 to 4 of the month (lines 2334-2353), and after those of the
\* last month the cleaning of the grid (line 2356)
ContemplateAndAct ==
    /\ pc = "contemplate"
    /\ UNCHANGED <<param, ISPs, plans, operator_locations, dynamic_switching_costs, replacements,
                   num_real_problems, Seed, run, exp_orig, fin, fout>>
    /\ IF num_real_problems < param.NumDissatisfied
       THEN \E o \in Contemplate(ISPs, plans, operator_locations, param, grid,
                                 dynamic_switching_costs, switchers, num_real_problems, Gen) :
              /\ grid' = IF o.ok /\ month + 1 >= param.MaxIter
                         THEN perform_grid_cleaning(plans, o.g) ELSE o.g
              /\ switchers' = o.sw
              /\ add_to_seed' = o.r.ats
              /\ stream' = stream
              /\ EndMonth(o.ok, o.hung)
       ELSE /\ grid' = IF month + 1 >= param.MaxIter
                       THEN perform_grid_cleaning(plans, grid) ELSE grid
            /\ UNCHANGED <<switchers, add_to_seed, stream>>
            /\ EndMonth(TRUE, FALSE)

Next ==
    \/ Initialise
    \/ UpdateProfits
    \/ CheckBankruptcy
    \/ ReviewPrices
    \/ ReviewPlans
    \/ AllAgentsUpdates
    \/ ContemplateAndAct

Spec == Init /\ [][Next]_vars

-----------------------------------------------------------------------------
(* Properties of the monthly loop.                                         *)

Firms == DOMAIN ISPs
Populated == { c \in CellSet : grid[c].populated }
Connected == { c \in Populated : grid[c].bundle # <<None, None>> }

\* the grid as it stands between two months
MonthEnd == pc \in { "profits", "done" }

\* what the household of cell c pays in a month
BundlePrice(c) ==
    RAdd(IF IsNone(grid[c].bundle[1]) THEN RZero ELSE P(plans, grid[c].bundle[1]).price,
         IF IsNone(grid[c].bundle[2]) THEN RZero ELSE P(plans, grid[c].bundle[2]).price)

\* C2: once the grid is initialised and at the end of every month, the
\* bundle of every populated household costs less than the share
\* IncomeBudget of its income
C2_OnlyAffordableBundles ==
    MonthEnd => \A c \in Connected :
                  RLt(RDiv(BundlePrice(c), grid[c].income), param.IncomeBudget)

Listed(oploc, f) == \E q \in DOMAIN oploc : InSeq(f, oploc[q])

\* C4: a firm whose savings pool is at or below zero at a bankruptcy check
\* leaves that check in none of the four quadrant indices, and no step of
\* the month puts a firm into a quadrant index that did not list it
C4_BankruptIsFinal ==
    [][pc # "start" =>
         \A f \in Firms :
           /\ \A q \in DOMAIN operator_locations :
                InSeq(f, operator_locations'[q]) => InSeq(f, operator_locations[q])
           /\ pc = "bankruptcy" /\ RLe(ISPs[f].moneypool, RZero)
                => ~Listed(operator_locations', f)]_vars

\* a month begins its bankruptcy check with a firm that an earlier check
\* took out of every index
C4_Witness ==
    /\ pc = "bankruptcy"
    /\ \E f \in Firms : ~Listed(operator_locations, f)

Exclusive(isps) ==
    \A f \in DOMAIN isps : isps[f].price_exp = None \/ isps[f].tech_exp = None

\* C6: a firm never holds a price experiment and a plan experiment at once,
\* and it starts an experiment of either kind only with both records clear
C6_OneExperimentAtATime ==
    [][pc # "start" =>
         /\ Exclusive(ISPs')
         /\ \A f \in Firms :
              \/ ISPs[f].price_exp = None /\ ISPs'[f].price_exp # None
              \/ ISPs[f].tech_exp = None /\ ISPs'[f].tech_exp # None
              => ISPs[f].price_exp = None /\ ISPs[f].tech_exp = None]_vars

\* one firm runs a price experiment while another runs a plan experiment
C6_Witness ==
    \E f, g \in Firms : ISPs[f].price_exp # None /\ ISPs[g].tech_exp # None

\* a review has moved a record on: cleared it, or counted it down
MovedOn(old, new) ==
    new = None \/ new[1].months_left < old[1].months_left

Subscribes(c, f) ==
    \E leg \in 1..2 :
      /\ ~IsNone(grid[c].bundle[leg])
      /\ \E k \in 1..Len(ISPs[f].roster) : ISPs[f].roster[k] = grid[c].bundle[leg][1]

\* C13: the bankruptcy check changes the quadrant indices only: the firms
\* (roster, experiment records, profit, savings pool), the plans and the
\* bundles of the households are after the check what they were before it
C13_BankruptcyKeepsFirms ==
    [][pc = "bankruptcy" =>
         /\ \A f \in Firms :
              /\ ISPs'[f].roster = ISPs[f].roster
              /\ ISPs'[f].price_exp = ISPs[f].price_exp
              /\ ISPs'[f].tech_exp = ISPs[f].tech_exp
              /\ ISPs'[f].profit = ISPs[f].profit
              /\ ISPs'[f].moneypool = ISPs[f].moneypool
         /\ DOMAIN ISPs' = DOMAIN ISPs
         /\ plans' = plans
         /\ grid' = grid]_vars

\* a bankruptcy check has taken a firm out of every quadrant index while a
\* household subscribes to one of its plans
C13_Witness ==
    /\ pc = "price"
    /\ \E f \in Firms :
         /\ RLe(ISPs[f].moneypool, RZero)
         /\ ~Listed(operator_locations, f)
         /\ \E c \in Connected : Subscribes(c, f)

\* C14: the profit the monthly update leaves a firm is its sales less its
\* operating fees less a marketing spend of MarketingBudget times its
\* savings pool when its previous profit is <= 0, and MarketingBudget times
\* that profit when it is > 0: the case split of the marketing weight
C14_MarketingSpendSplit ==
    [][pc = "profits" /\ pc' = "bankruptcy" =>
         LET sales == Sales(ISPs, plans, grid, param, 1, [f \in Firms |-> RZero],
                            Unbound, Unbound).profits
         IN  \A f \in Firms :
               LET fees == RSub(total_expenditure(ISPs, f, param),
                                marketing_expenditure(ISPs[f], param.MarketingBudget))
                   spend == IF RLe(ISPs[f].profit, RZero)
                            THEN RMul(param.MarketingBudget, ISPs[f].moneypool)
                            ELSE RMul(param.MarketingBudget, ISPs[f].profit)
               IN  ISPs'[f].profit = RSub(RSub(sales[f], fees), spend)]_vars

\* C18: a household that searches for a bundle while no firm is listed in
\* any quadrant (in the reassessment pass or in stages 3 and 4) ends its
\* search disconnected, and the run goes on
C18_EmptyQuadrantDisconnects ==
    [][(/\ pc \in { "agents", "contemplate" }
        /\ Populated # {}
        /\ \A quad \in 0..3 : operator_locations[quad] = <<>>)
         => /\ pc' # "crashed"
            /\ \A c \in Populated :
                 switchers[c] = 0 /\ switchers'[c] = 1 => grid'[c].bundle = <<None, None>>]_vars

\* firm f reviews its plan experiment at the next plan review and rolls it back
RollsBack(f) ==
    /\ RGt(ISPs[f].moneypool, RZero)
    /\ ISPs[f].tech_exp # None
    /\ ISPs[f].tech_exp[1].months_left = 0
    /\ RLe(ISPs[f].profit, ISPs[f].tech_exp[1].prev_profit)

\* C21: while a plan experiment runs the roster differs from the roster
\* before it only in the plan of the experiment (an added plan is the last
\* entry, a removed plan is retired in place); a review that finds the profit
\* not above the baseline takes the added plan off the roster, or puts the
\* removed plan back at its index as it was, and leaves every other entry
\* and plan as it is
C21_RollbackRestoresRoster ==
    /\ [](\A f \in Firms :
            ISPs[f].tech_exp # None =>
              LET plan_exp == ISPs[f].tech_exp[1]
                  roster == ISPs[f].roster
              IN  IF plan_exp.added = 1
                  THEN plans[roster[Len(roster)]] = plan_exp.plan
                  ELSE [plans[roster[plan_exp.idx + 1]]
                          EXCEPT !.name = plan_exp.plan.name, !.kind = "wifi", !.ri = NoIndex]
                         = plan_exp.plan)
    /\ [][pc = "plan" /\ pc' = "agents" =>
            \A f \in Firms :
              RollsBack(f) =>
                LET plan_exp == ISPs[f].tech_exp[1]
                    roster == ISPs[f].roster
                IN  /\ ISPs'[f].tech_exp = None
                    /\ IF plan_exp.added = 1
                       THEN /\ ISPs'[f].roster = SubSeq(roster, 1, Len(roster) - 1)
                            /\ \A k \in 1..(Len(roster) - 1) : plans'[roster[k]] = plans[roster[k]]
                       ELSE /\ ISPs'[f].roster = roster
                            /\ plans'[roster[plan_exp.idx + 1]] = plan_exp.plan
                            /\ \A k \in DOMAIN roster :
                                 k # plan_exp.idx + 1 => plans'[roster[k]] = plans[roster[k]]]_vars

\* a removal is at the review that rolls it back
C21_Witness ==
    /\ pc = "plan"
    /\ \E f \in Firms :
         /\ RollsBack(f)
         /\ ISPs[f].tech_exp[1].added = 0
         /\ plans[ISPs[f].roster[ISPs[f].tech_exp[1].idx + 1]].name = "PLAN GONE"

\* the plan is an entry of the roster of the firm whose name it carries
OnRoster(isps, heap, id) ==
    \E f \in DOMAIN isps :
        /\ heap[id].name = isps[f].name
        /\ \E k \in 1..Len(isps[f].roster) : isps[f].roster[k] = id

\* C27: at the end of a month each leg of a household's bundle is an entry
\* of the roster of the firm that owns it
C27_BundleOnRoster ==
    MonthEnd =>
        \A c \in Populated : \A leg \in 1..2 :
            ~IsNone(grid[c].bundle[leg]) => OnRoster(ISPs, plans, grid[c].bundle[leg][1])

\* firm f starts an experiment in this step: it had no record of the kind
\* and has one now
StartsExperiment(f) ==
    \/ ISPs[f].price_exp = None /\ ISPs'[f].price_exp # None
    \/ ISPs[f].tech_exp = None /\ ISPs'[f].tech_exp # None

\* C29: a firm that a bankruptcy check has taken out of the quadrant indices
\* starts no price experiment and no product experiment afterwards
C29_BankruptStartsNothing ==
    [][(pc = "price" \/ pc = "plan") =>
         \A f \in Firms : ~Listed(operator_locations, f) => ~StartsExperiment(f)]_vars

\* C24: the plan review of a month comes to its end: every call of
\* choose_plan_to_add returns, also when no firm but the acting one has a
\* savings pool above 0
C24_PlanReviewEnds == [][pc = "plan" => pc' # "hung"]_vars

-----------------------------------------------------------------------------
(* Two executions of run_simulation with the same arguments and the same   *)
(* generator.  The first records its month-end snapshots.                  *)

\* run_simulation is called again when the first execution has ended
Rerun ==
    /\ pc \in { "done", "crashed", "hung" }
    /\ run = 1
    /\ run' = 2
    /\ pc' = "start"
    /\ UNCHANGED <<param, ISPs, plans, operator_locations, grid, dynamic_switching_costs,
                   switchers, replacements, num_real_problems, month, Seed, add_to_seed,
                   stream, history, exp_orig, fin, fout>>

\* how many values each coefficient of a generator ranges over
MaxCoeff == 3

Generators == (0..MaxCoeff) \X (0..MaxCoeff) \X (0..MaxCoeff)

InitDet == InitWith(1, { Busy }, Generators)

NextDet == Next \/ Rerun

SpecDet == InitDet /\ [][NextDet]_vars

\* C1: in the second execution, the grid (bundles included), the firms
\* (profit and savings pool included), the plans and the quadrant indices
\* are, once the grid is initialised and at the end of every month, what
\* they were at that point of the first execution
C1_SameTrajectory ==
    run = 2 /\ MonthEnd => /\ month + 1 <= Len(history)
                           /\ Snapshot = history[month + 1]

\* the second execution has come to the end of a month in which the first
\* one made draws
C1_Witness ==
    /\ run = 2
    /\ MonthEnd
    /\ month >= 1
    /\ \E c \in Populated : grid[c].bundle # <<None, None>>
    /\ \E f \in Firms : ISPs[f].price_exp # None \/ ISPs[f].tech_exp # None

-----------------------------------------------------------------------------
(* The price review of a firm whose roster holds retired plans.            *)

\* the longest roster followed
MaxRoster == 5

\* a roster, position by position: is the plan there retired?  Only wifi
\* plans are ever retired (line 1521), and the first plan is a mobile one
Rosters == { r \in UNION { [1..n -> BOOLEAN] : n \in 1..MaxRoster } : ~r[1] }

\* the plan at roster position k (0-based k - 1): a mobile plan first, wifi
\* plans of growing speed after it; a retired plan as lines 1494-1498 leave it
RosterPlan(k, retired) ==
    LET plan == IF k = 1 THEN Row("Telstra", "mobile", 40, "remote", 20, "Telstra")
                ELSE Row("Telstra", "wifi", 25 * k, "urban", 30 + 10 * k, "NBN Co")
    IN  IF retired
        THEN [plan EXCEPT !.name = "PLAN GONE", !.kind = "index", !.ri = 0]
        ELSE plan

\* the only firm of the market, with the roster given
RosterFirm(retired) ==
    [name |-> "Telstra", roster |-> [k \in 1..Len(retired) |-> k],
     mobile_offered |-> TRUE, mobile_locs |-> {0, 1, 2, 3},
     wifi_offered |-> TRUE, wifi_locs |-> {0},
     price_exp |-> None, tech_exp |-> None,
     profit |-> RInt(1), moneypool |-> RInt(1)]

\* the month has come to its price review; no experiment is running
InitTarget ==
    /\ pc = "price"
    /\ param = Busy
    /\ fin \in Rosters
    /\ ISPs = [f \in {0} |-> RosterFirm(fin)]
    /\ plans = [k \in 1..Len(fin) |-> RosterPlan(k, fin[k])]
    /\ operator_locations = [quad \in 0..3 |-> <<0>>]
    /\ grid = [c \in CellSet |-> Empty]
    /\ dynamic_switching_costs = [c \in CellSet |-> RZero]
    /\ switchers = [c \in CellSet |-> 0]
    /\ replacements = <<>>
    /\ num_real_problems = 0
    /\ month = 1
    /\ Seed = param.Seed
    /\ add_to_seed = 0
    /\ stream = <<>>
    /\ run = 0
    /\ history = <<>>
    /\ exp_orig = [f \in {0} |-> None]
    /\ fout = None

NextTarget == ReviewPrices

SpecTarget == InitTarget /\ [][NextTarget]_vars

\* C8: the plan a running price experiment targets is not a retired one
C8_TargetNotRetired ==
    \A f \in Firms :
      ISPs[f].price_exp # None => plans[ISPs[f].price_exp[1].plan].name # "PLAN GONE"

-----------------------------------------------------------------------------
(* The arithmetic of a price experiment in floating point.  A Python float *)
(* is a binary floating-point number: every operation yields the exact     *)
(* result rounded to the nearest number with a significand of so many bits *)
(* (53 in Python, Mantissa here), ties going to the even significand.      *)

\* bits of the significand
Mantissa == 8

RECURSIVE Pow2(_)
Pow2(k) == IF k = 0 THEN 1 ELSE 2 * Pow2(k - 1)

\* <<a, d, e>> with a / d at 2^e times the original a / d and
\* 2^(Mantissa - 1) <= a / d < 2^Mantissa
RECURSIVE Normal(_, _, _)
Normal(a, d, e) ==
    IF a < Pow2(Mantissa - 1) * d THEN Normal(2 * a, d, e - 1)
    ELSE IF a >= Pow2(Mantissa) * d THEN Normal(a, 2 * d, e + 1)
    ELSE <<a, d, e>>

\* the float nearest to the rational q
Fl(q) ==
    IF q[1] = 0 THEN RZero
    ELSE LET nz == Normal(Abs(q[1]), q[2], 0)
             whole == nz[1] \div nz[2]
             rest == nz[1] % nz[2]
             up == 2 * rest > nz[2] \/ (2 * rest = nz[2] /\ whole % 2 = 1)
             m == (IF q[1] < 0 THEN -1 ELSE 1) * (IF up THEN whole + 1 ELSE whole)
         IN  IF nz[3] >= 0 THEN Rat(m * Pow2(nz[3]), 1) ELSE Rat(m, Pow2(-nz[3]))

FAdd(a, b) == Fl(RAdd(a, b))
FMul(a, b) == Fl(RMul(a, b))
FDiv(a, b) == Fl(RDiv(a, b))

\* line 1412: new_price = current_price + change*current_price
NewPrice(current_price, change) == FAdd(current_price, FMul(change, current_price))

\* line 1383 with the price multiplied by (1 - change) instead
RevertedByProduct(price, change) == FMul(price, FAdd(RInt(1), RNeg(change)))

\* line 1383: the price divided by (1 + change)
Reverted(price, change) == FDiv(price, FAdd(RInt(1), change))

\* the highest price tried
MaxPrice == 40

\* PercentPriceChange, in percent, as the float literal of that value
Percents == { 5, 10, 25, 50 }

\* a firm's two plans at prices p and q, the change of the experiment on
\* the first one, its profit when the experiment starts and at the review
Trials ==
    [p : { RInt(n) : n \in 1..MaxPrice }, q : { RInt(40) },
     change : UNION { { Fl(Rat(c, 100)), RNeg(Fl(Rat(c, 100))) } : c \in Percents },
     prev_profit : { RInt(1) }, profit : { RInt(0), RInt(1), RInt(2) }]

InitTrip ==
    /\ pc = "experiment"
    /\ fin \in Trials
    /\ fout = None
    /\ param = Busy
    /\ ISPs = <<>>
    /\ plans = <<>>
    /\ operator_locations = [quad \in 0..3 |-> <<>>]
    /\ grid = [c \in CellSet |-> Empty]
    /\ dynamic_switching_costs = [c \in CellSet |-> RZero]
    /\ switchers = [c \in CellSet |-> 0]
    /\ replacements = <<>>
    /\ num_real_problems = 0
    /\ month = 0
    /\ Seed = param.Seed
    /\ add_to_seed = 0
    /\ stream = <<>>
    /\ run = 0
    /\ history = <<>>
    /\ exp_orig = <<>>

\* lines 1412-1415: the experiment starts; fout holds the two prices
TripStart ==
    /\ pc = "experiment"
    /\ fout' = <<NewPrice(fin.p, fin.change), fin.q>>
    /\ pc' = "review"
    /\ UNCHANGED <<param, ISPs, plans, operator_locations, grid, dynamic_switching_costs,
                   switchers, replacements, num_real_problems, month, Seed, add_to_seed,
                   stream, run, history, exp_orig, fin>>

\* lines 1381-1384: the review at the end of the countdown
TripReview ==
    /\ pc = "review"
    /\ fout' = IF RLe(fin.profit, fin.prev_profit)
               THEN <<Reverted(fout[1], fin.change), fout[2]>>
               ELSE fout
    /\ pc' = "reviewed"
    /\ UNCHANGED <<param, ISPs, plans, operator_locations, grid, dynamic_switching_costs,
                   switchers, replacements, num_real_problems, month, Seed, add_to_seed,
                   stream, run, history, exp_orig, fin>>

NextTrip == TripStart \/ TripReview

SpecTrip == InitTrip /\ [][NextTrip]_vars

-----------------------------------------------------------------------------
(* decide_bundle on its own.                                               *)

\* the plans the candidates are made of: two mobile plans, three wifi plans
Offers ==
    << Row("Telstra", "mobile", 40, "remote", 20, "Telstra"),
       Row("TPG", "mobile", 100, "remote", 30, "Telstra"),
       Row("Telstra", "wifi", 50, "urban", 40, "NBN Co"),
       Row("TPG", "wifi", 100, "urban", 70, "NBN Co"),
       Row("TPG", "wifi", 20, "urban", 100, "NBN Co") >>

\* the longest list of complete bundles
MaxBundles == 2

Mobiles == { <<1>>, <<2>> }
Wifis == { <<3>>, <<4>> }
Lists(S, n) == UNION { [1..k -> S] : k \in 0..n }

\* the arguments of a call of decide_bundle
Calls ==
    [income : { RInt(800), RInt(3000) },
     bundle : { <<None, None>>, << <<1>>, None >>, << None, <<3>> >>,
                << <<1>>, <<3>> >>, << <<2>>, <<4>> >>, << <<2>>, <<5>> >> },
     complete_bundles : Lists(Mobiles \X Wifis, MaxBundles),
     mobile_plans : { <<>>, << <<1>> >>, << <<2>> >>, << <<1>>, <<2>> >> },
     wifi_plans : { <<>>, << <<3>> >>, << <<4>> >> },
     initial_call : BOOLEAN]

InitDecide ==
    /\ pc = "decide"
    /\ param \in { [Busy EXCEPT !.IncomeBudget = b] : b \in { Rat(1, 10), Rat(1, 25) } }
    /\ fin \in Calls
    /\ fout = None
    /\ plans = Offers
    /\ ISPs = <<>>
    /\ operator_locations = [quad \in 0..3 |-> <<>>]
    /\ grid = [c \in CellSet |-> Empty]
    /\ dynamic_switching_costs = [c \in CellSet |-> RZero]
    /\ switchers = [c \in CellSet |-> 0]
    /\ replacements = <<>>
    /\ num_real_problems = 0
    /\ month = 0
    /\ Seed = param.Seed
    /\ add_to_seed = 0
    /\ stream = <<>>
    /\ run = 0
    /\ history = <<>>
    /\ exp_orig = <<>>

\* one call of decide_bundle (lines 470-495)
DecideBundle ==
    /\ pc = "decide"
    /\ \E o \in decide_bundle(plans, fin.income, fin.bundle, fin.complete_bundles,
                              fin.mobile_plans, fin.wifi_plans, param, Gen, fin.initial_call) :
         /\ fout' = o.bundle
         /\ add_to_seed' = o.r.ats
    /\ pc' = "decided"
    /\ UNCHANGED <<param, ISPs, plans, operator_locations, grid, dynamic_switching_costs,
                   switchers, replacements, num_real_problems, month, Seed, stream, run,
                   history, exp_orig, fin>>

NextDecide == DecideBundle

SpecDecide == InitDecide /\ [][NextDecide]_vars

\* the result is a plan of a fallback list on its own, and not the bundle
\* the household had
FallbackSelection ==
    /\ fout # fin.bundle
    /\ \/ ~IsNone(fout[1]) /\ IsNone(fout[2]) /\ InSeq(fout[1], fin.mobile_plans)
       \/ IsNone(fout[1]) /\ ~IsNone(fout[2]) /\ InSeq(fout[2], fin.wifi_plans)

\* the complete candidates that cost less than the share IncomeBudget of
\* the household's income
UnderBudget ==
    { k \in 1..Len(fin.complete_bundles) :
        RLt(RDiv(RAdd(P(plans, fin.complete_bundles[k][1]).price,
                      P(plans, fin.complete_bundles[k][2]).price), fin.income),
            param.IncomeBudget) }

\* C3 as stated: called with a non-empty list of complete bundles,
\* decide_bundle returns no selection from the mobile-only or fixed-only list
C3_NeverFallback ==
    pc = "decided" /\ Len(fin.complete_bundles) > 0 => ~FallbackSelection

\* C3: called with a list of complete bundles of which one at least costs
\* less than the share IncomeBudget of the income, decide_bundle returns a
\* bundle with both plans or none; called with a list of which none does, it
\* returns no complete bundle but the one the household had
C3_FallbackOnlyWhenUnaffordable ==
    pc = "decided" =>
      IF UnderBudget # {}
      THEN IsNone(fout[1]) = IsNone(fout[2])
      ELSE ~IsNone(fout[1]) /\ ~IsNone(fout[2]) => fout = fin.bundle

\* a complete candidate was under budget, the fallback lists were not empty,
\* and the result is a complete bundle
C3_Witness ==
    /\ pc = "decided"
    /\ UnderBudget # {}
    /\ Len(fin.mobile_plans) > 0
    /\ Len(fin.wifi_plans) > 0
    /\ ~IsNone(fout[1])
    /\ ~IsNone(fout[2])

-----------------------------------------------------------------------------
(* Stages 2 to 4 of a month on a grid of two households, as the month's    *)
(* reassessment pass leaves them: switchers cleared, the switching cost of *)
(* a household 0 if it re-decided the month before and grown by            *)
(* SwitchingCostIncrease per month otherwise.                               *)

\* the households initialise_grid can place in cell c (lines 851-864)
Households(isps, oploc, pp, c) ==
    UNION { { [populated |-> TRUE, income |-> RInt(inc), bundle |-> o.bundle,
               spent |-> decide_expenditure(Catalogue, o.bundle, RInt(inc))]
              : o \in { d \in Decide(isps, Catalogue, oploc, c, RInt(inc), <<None, None>>, pp,
                                     [seed |-> pp.Seed, ats |-> 0, fn |-> <<>>, mode |-> "free"],
                                     TRUE)
                        : d.ok } }
            : inc \in {800, 4000} }

\* the pairs of cells the two households live in
Homes == { h \in SUBSET CellSet : Cardinality(h) = 2 }

\* the switching costs all_agents_updates leaves (lines 1701-1706)
StageCosts == { RZero, Rat(1, 2), RInt(1) }

InitStage ==
    /\ pc = "contemplate"
    /\ \E n \in {1, 2} : param = [Busy EXCEPT !.NumDissatisfied = n]
    /\ LET separated_plans == separate_plans_by_ISP(Catalogue, 2, <<1>>, <<>>)
           isps == create_ultimate_list_of_ISPs(Catalogue, separated_plans, param.InitialMoneyPool)
           oploc == define_ISPs_per_location(isps)
       IN  /\ ISPs = isps
           /\ operator_locations = oploc
           /\ exp_orig = [f \in DOMAIN isps |-> None]
           /\ \E h \in Homes :
                /\ \E hs \in [h -> UNION { Households(isps, oploc, param, c) : c \in h }] :
                     /\ \A c \in h : hs[c] \in Households(isps, oploc, param, c)
                     /\ grid = [c \in CellSet |-> IF c \in h THEN hs[c] ELSE Empty]
                /\ \E costs \in [h -> StageCosts] :
                     dynamic_switching_costs =
                         [c \in CellSet |-> IF c \in h THEN costs[c] ELSE RZero]
    /\ plans = Catalogue
    /\ switchers = [c \in CellSet |-> 0]
    /\ replacements = <<>>
    /\ num_real_problems = 0
    /\ month = 1
    /\ Seed = param.Seed
    /\ add_to_seed = 0
    /\ stream = <<>>
    /\ run = 0
    /\ history = <<>>
    /\ fin = None
    /\ fout = None

NextStage == ContemplateAndAct

SpecStage == InitStage /\ [][NextStage]_vars

\* C11: stage 2 compares the draw of a contemplating household with the
\* switching cost stored for the household's own cell, so that it proceeds
\* with probability 1 minus its own switching cost: a household whose own
\* switching cost is 1 or more does not re-run the decision engine in
\* stages 3 and 4
C11_OwnSwitchingCost ==
    [][pc = "contemplate" =>
         \A c \in Populated :
           switchers[c] = 0 /\ switchers'[c] = 1
             => RLt(dynamic_switching_costs[c], RInt(1))]_vars

-----------------------------------------------------------------------------
(* A month from its plan review on, in a market where the second firm may  *)
(* have added (and kept) a copy of the first firm's fixed-line plan in an   *)
(* earlier month, so that it holds two fixed-line plans of one area.        *)

\* the plans after choose_plan_to_add copied Telstra's fixed-line plan
\* (lines 1598-1604) and review_plan_experiments appended it (line 1508)
RetireHeap == Append(Catalogue, [Catalogue[2] EXCEPT !.name = "TPG"])

\* the bundles the urban household may hold
RetireBundles ==
    { <<m, w>> : m \in { None, <<1>>, <<3>> }, w \in { <<2>>, <<4>>, <<5>> } }

\* the grid: a household in the urban cell, on the added plan if the second
\* firm holds one and on its own fixed-line plan otherwise, or on the first
\* firm's; and none or one in the remote cell, on the second firm's mobile
\* plan
RetireGrids(added) ==
    { [c \in CellSet |->
         IF c = <<0, 0>>
         THEN [populated |-> TRUE, income |-> RInt(inc), bundle |-> b,
               spent |-> decide_expenditure(RetireHeap, b, RInt(inc))]
         ELSE IF c = <<GridN - 1, GridN - 1>> /\ far
         THEN [populated |-> TRUE, income |-> RInt(800), bundle |-> << <<3>>, None >>,
               spent |-> decide_expenditure(RetireHeap, << <<3>>, None >>, RInt(800))]
         ELSE Empty]
      : inc \in {800, 4000}, far \in BOOLEAN,
        b \in { x \in RetireBundles :
                  /\ x[2] # (IF added THEN <<4>> ELSE <<5>>)
                  /\ RLt(decide_expenditure(RetireHeap, x, RInt(800)), RInt(10)) } }

InitRetire ==
    /\ pc = "plan"
    /\ param = Busy
    /\ \E added \in BOOLEAN :
         LET separated_plans == separate_plans_by_ISP(Catalogue, 2, <<1>>, <<>>)
             isps0 == create_ultimate_list_of_ISPs(Catalogue, separated_plans, param.InitialMoneyPool)
             isps1 == IF added THEN [isps0 EXCEPT ![1].roster = Append(@, 5)] ELSE isps0
         IN  /\ plans = IF added THEN RetireHeap ELSE Catalogue
             /\ grid \in RetireGrids(added)
             /\ LET res == update_ISP_profits_and_moneypool(isps1, plans, grid, param)
                IN  /\ res.ok
                    /\ ISPs = res.isps
                    /\ operator_locations =
                         check_for_bankruptcy(res.isps, define_ISPs_per_location(isps0), 0)
             /\ exp_orig = [f \in DOMAIN isps0 |-> None]
    /\ \E costs \in [Populated -> { RZero, Rat(1, 2) }] :
         dynamic_switching_costs = [c \in CellSet |-> IF c \in Populated THEN costs[c] ELSE RZero]
    /\ switchers = [c \in CellSet |-> 0]
    /\ replacements = <<>>
    /\ num_real_problems = 0
    /\ month = 1
    /\ Seed = param.Seed + 10
    /\ add_to_seed = 0
    /\ stream = <<>>
    /\ run = 0
    /\ history = <<>>
    /\ fin = None
    /\ fout = None

NextRetire == ReviewPlans \/ AllAgentsUpdates \/ ContemplateAndAct

SpecRetire == InitRetire /\ [][NextRetire]_vars

\* the household of cell c holds a retired plan
HoldsRetired(g, heap, c) ==
    \E leg \in 1..2 : ~IsNone(g[c].bundle[leg]) /\ P(heap, g[c].bundle[leg]).name = "PLAN GONE"

\* C12: once the month's reassessment pass is over no populated household
\* holds a retired plan, in the pass every holder of a plan retired that
\* month is moved to the replacement recorded for it or re-decides without
\* its fixed-line leg, and stages 3 and 4 hand no household a retired plan
C12_NoRetiredPlanHeld ==
    /\ [](pc \in { "contemplate", "profits", "done" }
            => \A c \in Populated : ~HoldsRetired(grid, plans, c))
    /\ [][pc = "agents" /\ pc' = "contemplate" =>
            \A c \in Populated :
              HoldsRetired(grid, plans, c) =>
                LET replacement == replacements[P(plans, grid[c].bundle[2]).ri + 1]
                IN  \/ switchers'[c] = 1
                    \/ /\ ~IsNone(replacement[2])
                       /\ grid'[c].bundle =
                            << grid[c].bundle[1],
                               << ISPs[replacement[1]].roster[replacement[2][1] + 1] >> >>]_vars

\* a household that held a plan retired this month has been moved to the
\* replacement recorded for it
C12_Witness ==
    /\ pc = "contemplate"
    /\ \E c \in Populated, id \in DOMAIN plans :
         /\ plans[id].name = "PLAN GONE"
         /\ plans[id].ri >= 0 /\ plans[id].ri < Len(replacements)
         /\ LET replacement == replacements[plans[id].ri + 1]
            IN  /\ ~IsNone(replacement[2])
                /\ grid[c].bundle[2] = << ISPs[replacement[1]].roster[replacement[2][1] + 1] >>
                /\ switchers[c] = 0
                /\ dynamic_switching_costs[c] # RZero

-----------------------------------------------------------------------------
(* decide_bundle for a disconnected household with income 3000 that is     *)
(* offered two complete bundles, one at 80 and one at 140, of every         *)
(* combination of capacities, in both orders, under a seeded generator.     *)

\* the four plans: the bundle at 80 is (1, 2), the bundle at 140 is (3, 4)
ScenarioHeap(caps) ==
    << Row("Telstra", "mobile", caps[1], "remote", 30, "Telstra"),
       Row("Telstra", "wifi", caps[2], "urban", 50, "NBN Co"),
       Row("TPG", "mobile", caps[3], "remote", 60, "Telstra"),
       Row("TPG", "wifi", caps[4], "urban", 80, "NBN Co") >>

\* capacities on both sides of the minimum quality thresholds (61 GB, 25 Mbps)
ScenarioCaps == {40, 100} \X {20, 50, 100} \X {40, 100} \X {20, 50, 100}

Cheap == << <<1>>, <<2>> >>
Dear == << <<3>>, <<4>> >>

InitScenario ==
    /\ pc = "decide"
    /\ param = Busy
    /\ fin \in [income : { RInt(3000) },
                bundle : { <<None, None>> },
                complete_bundles : { <<Cheap, Dear>>, <<Dear, Cheap>> },
                mobile_plans : { <<>> },
                wifi_plans : { <<>> },
                initial_call : BOOLEAN]
    /\ fout = None
    /\ \E caps \in ScenarioCaps : plans = ScenarioHeap(caps)
    /\ ISPs = <<>>
    /\ operator_locations = [quad \in 0..3 |-> <<>>]
    /\ grid = [c \in CellSet |-> Empty]
    /\ dynamic_switching_costs = [c \in CellSet |-> RZero]
    /\ switchers = [c \in CellSet |-> 0]
    /\ replacements = <<>>
    /\ num_real_problems = 0
    /\ month = 0
    /\ Seed = param.Seed
    /\ add_to_seed = 0
    /\ stream \in { <<0, 0, 0>>, <<0, 0, 1>> }
    /\ run = 1
    /\ history = <<>>
    /\ exp_orig = <<>>

NextScenario == DecideBundle

SpecScenario == InitScenario /\ [][NextScenario]_vars

\* the minimum quality flags of a complete bundle (lines 596-603)
Flags(b) == << P(plans, b[1]).cap > 61, P(plans, b[2]).cap > 25 >>

\* the priority of a pair of flags in the minimum-quality comparison
Rank(q) == IF q = <<TRUE, TRUE>> THEN 2 ELSE IF q = <<FALSE, FALSE>> THEN 0 ELSE 1

\* the value score of bundle b among the two (lines 586-595)
Score(b) ==
    LET e == EvalComplete(plans, <<Cheap, Dear>>)
    IN  IF b = Cheap THEN e[1].value ELSE e[2].value

\* C15 as stated: the bundle at 80 is selected for every order, draw and
\* combination of capacities
C15_CheaperAlways == pc = "decided" => fout = Cheap

\* C15: the bundle at 80 is selected whenever its minimum quality flags
\* rank above those of the bundle at 140, or equal them with a flag set, or
\* both have no flag set and its value score is the higher; the bundle at
\* 140 is selected whenever its flags rank above, or both have no flag set
\* and its value score is the higher
C15_CheaperUnlessBetterQuality ==
    pc = "decided" =>
      LET qc == Flags(Cheap)
          qd == Flags(Dear)
      IN  /\ \/ Rank(qc) > Rank(qd)
             \/ qc = qd /\ Rank(qc) > 0
             \/ Rank(qc) = 0 /\ Rank(qd) = 0 /\ RGt(Score(Cheap), Score(Dear))
             => fout = Cheap
          /\ \/ Rank(qd) > Rank(qc)
             \/ Rank(qc) = 0 /\ Rank(qd) = 0 /\ RGt(Score(Dear), Score(Cheap))
             => fout = Dear

\* both bundles pass both thresholds, the dearer was offered first, and the
\* cheaper is selected
C15_Witness ==
    /\ pc = "decided"
    /\ Flags(Cheap) = <<TRUE, TRUE>>
    /\ Flags(Dear) = <<TRUE, TRUE>>
    /\ fin.complete_bundles = <<Dear, Cheap>>
    /\ fout = Cheap

\* the draw of random.random() in the minimum-quality comparison of the
\* second candidate with the first
ScenarioDraw ==
    LET d == CHOOSE d \in Draw([seed |-> Seed, ats |-> 0, fn |-> stream, mode |-> "seeded"], U) : TRUE
    IN  d[1]

\* C16: of a bundle that passes the mobile threshold only and one that
\* passes the fixed-line threshold only, the first is selected exactly when
\* the draw is below PrSacrificeWifi, whichever of the two is the new
\* candidate
C16_MobileQualifiedIffDraw ==
    pc = "decided" /\ { Flags(Cheap), Flags(Dear) } = { <<TRUE, FALSE>>, <<FALSE, TRUE>> } =>
      LET mobile_qualified == IF Flags(Cheap) = <<TRUE, FALSE>> THEN Cheap ELSE Dear
      IN  (fout = mobile_qualified) <=> ULt(ScenarioDraw, param.PrSacrificeWifi)

-----------------------------------------------------------------------------
(* The consideration probabilities of pick_operators in floating point.    *)

\* bits of the significand where a probability is compared with the literal
\* 0.001: enough for the spacing of the floats next to 1 to be below 0.001,
\* as it is with the 53 bits of Python
ProbBits == 12

\* <<a, d, e>> with a / d at 2^e times the original a / d and
\* 2^(ProbBits - 1) <= a / d < 2^ProbBits
RECURSIVE Scaled(_, _, _)
Scaled(a, d, e) ==
    IF a \div d < Pow2(ProbBits - 1)
    THEN IF d % 2 = 0 THEN Scaled(a, d \div 2, e - 1) ELSE Scaled(2 * a, d, e - 1)
    ELSE IF a \div d >= Pow2(ProbBits)
    THEN IF a % 2 = 0 THEN Scaled(a \div 2, d, e + 1) ELSE Scaled(a, 2 * d, e + 1)
    ELSE <<a, d, e>>

\* the float of ProbBits bits nearest to the rational q, ties to even
Precise(q) ==
    IF q[1] = 0 THEN RZero
    ELSE LET nz == Scaled(Abs(q[1]), q[2], 0)
             whole == nz[1] \div nz[2]
             rest == nz[1] % nz[2]
             up == 2 * rest > nz[2] \/ (2 * rest = nz[2] /\ whole % 2 = 1)
             m == (IF q[1] < 0 THEN -1 ELSE 1) * (IF up THEN whole + 1 ELSE whole)
         IN  IF nz[3] >= 0 THEN Rat(m * Pow2(nz[3]), 1) ELSE Rat(m, Pow2(-nz[3]))

\* sum(probs_array): Python adds from the left, starting at 0
RECURSIVE FSum(_, _, _)
FSum(xs, k, acc) == IF k > Len(xs) THEN acc ELSE FSum(xs, k + 1, Precise(RAdd(acc, xs[k])))

\* the marketing budgets taken as they are
pr_unnormalised(marketing_budgets) == marketing_budgets

\* lines 359-363: pr = budget/industry_total for every candidate; the result
\* of round_up_to_nearest_001(pr) is discarded
pr_effective_marketing(marketing_budgets) ==
    LET industry_total == FSum(marketing_budgets, 1, RZero)
    IN  [k \in 1..Len(marketing_budgets) |-> Precise(RDiv(marketing_budgets[k], industry_total))]

\* the float literal 0.001
Thousandth == Precise(Rat(1, 1000))

\* ensure_adds_to_1(probs_array, Seed): the set of [ok, hung, probs, r]
\* outcomes.  amount_over is never reduced (line 439 computes a difference
\* and drops it): the loop returns at the first entry above 0.001 when
\* amount_over <= 0.001 and never ends otherwise.
ensure_adds_to_1(probs_array, r) ==
    LET total == FSum(probs_array, 1, RZero)
        amount_under == Precise(RAdd(RInt(1), RNeg(total)))
        amount_over == Precise(RAdd(total, RInt(-1)))
        above == { p \in 1..Len(probs_array) : RGt(probs_array[p], Thousandth) }
        first == CHOOSE p \in above : \A p2 \in above : p <= p2
        done(probs, r2) == [ok |-> TRUE, hung |-> FALSE, probs |-> probs, r |-> r2]
    IN  IF total = RInt(1) THEN { done(probs_array, r) }
        ELSE IF RLt(total, RInt(1))
        THEN IF Len(probs_array) = 0
             THEN { [ok |-> FALSE, hung |-> FALSE, probs |-> probs_array, r |-> Skip(r)] }
             ELSE { done([probs_array EXCEPT ![d[1] + 1] = Precise(RAdd(@, amount_under))], d[2])
                    : d \in Draw(r, 0..(Len(probs_array) - 1)) }
        ELSE IF RGt(amount_over, Thousandth) \/ above = {}
        THEN { [ok |-> FALSE, hung |-> TRUE, probs |-> probs_array, r |-> r] }
        ELSE { done([probs_array EXCEPT ![first] = Precise(RAdd(@, RNeg(amount_over)))], r) }

\* the marketing weights of the candidates (lines 351-357): a share of a
\* firm's profit or of its savings pool
Budgets == { RZero, RInt(1), RInt(3), RInt(7), RInt(10), RInt(25) }

\* the most candidates of one quadrant
MaxFirms == 4

InitProbs ==
    /\ pc = "weights"
    /\ param = Busy
    /\ fin \in UNION { [1..n -> Budgets] : n \in 1..MaxFirms }
    /\ \E k \in DOMAIN fin : fin[k] # RZero
    /\ fout = None
    /\ plans = <<>>
    /\ ISPs = <<>>
    /\ operator_locations = [quad \in 0..3 |-> <<>>]
    /\ grid = [c \in CellSet |-> Empty]
    /\ dynamic_switching_costs = [c \in CellSet |-> RZero]
    /\ switchers = [c \in CellSet |-> 0]
    /\ replacements = <<>>
    /\ num_real_problems = 0
    /\ month = 0
    /\ Seed = param.Seed
    /\ add_to_seed = 0
    /\ stream = <<>>
    /\ run = 0
    /\ history = <<>>
    /\ exp_orig = <<>>

\* lines 359-364 of pick_operators
Probabilities ==
    /\ pc = "weights"
    /\ \E o \in ensure_adds_to_1(pr_effective_marketing(fin), Gen) :
         /\ fout' = o
         /\ add_to_seed' = o.r.ats
         /\ pc' = IF o.ok THEN "weighted" ELSE Stop(o)
    /\ UNCHANGED <<param, ISPs, plans, operator_locations, grid, dynamic_switching_costs,
                   switchers, replacements, num_real_problems, month, Seed, stream, run,
                   history, exp_orig, fin>>

NextProbs == Probabilities

SpecProbs == InitProbs /\ [][NextProbs]_vars

\* the sum of a vector, exactly
Total(xs) == SeqSum(xs, 1)

-----------------------------------------------------------------------------
(* The multi-run driver (monte_carlo.py).  A pool worker is one Python     *)
(* process: it executes the tasks handed to it one after the other, and    *)
(* the module's globals are what the task before left in them.  The worker *)
(* followed here is handed seed k, then seed j, then seed k again, so that *)
(* the results of seed k in a fresh process and after a sibling are both   *)
(* in the state.  fin is the worker's position in its tasks and how each   *)
(* of them ended; fout is the list pool.map builds.                        *)

\* the seeds of monte_carlo_parallel(runs = 2, ...): range(runs)
Runs == 2

TaskLists == { <<k, j, k>> : k \in 0..(Runs - 1), j \in 0..(Runs - 1) }

InitDriver ==
    /\ pc = "start"
    /\ fin \in { [tasks |-> t, task |-> 1, ends |-> <<>>] : t \in TaskLists }
    /\ param \in { [p EXCEPT !.Seed = fin.tasks[1]] : p \in { Busy, Costly } }
    /\ fout = <<>>
    /\ ISPs = <<>>
    /\ plans = <<>>
    /\ operator_locations = [quad \in 0..3 |-> <<>>]
    /\ grid = [c \in CellSet |-> Empty]
    /\ dynamic_switching_costs = [c \in CellSet |-> RZero]
    /\ switchers = [c \in CellSet |-> 0]
    /\ replacements = <<>>
    /\ num_real_problems = 0
    /\ month = 0
    /\ Seed = param.Seed
    /\ add_to_seed = 0
    /\ stream \in Generators
    /\ run = 1
    /\ history = <<>>
    /\ exp_orig = <<>>

\* run_single_simulation that returns what the run had produced when it raised
ReturnPartial ==
    /\ pc \in { "done", "crashed" }
    /\ fout' = Append(fout, <<history>>)
    /\ fin' = [fin EXCEPT !.task = @ + 1, !.ends = Append(@, pc)]
    /\ IF fin.task < Len(fin.tasks)
       THEN /\ param' = [param EXCEPT !.Seed = fin.tasks[fin.task + 1]]
            /\ pc' = "start"
       ELSE /\ param' = param
            /\ pc' = "mapped"
    /\ UNCHANGED <<ISPs, plans, operator_locations, grid, dynamic_switching_costs, switchers,
                   replacements, num_real_problems, month, Seed, add_to_seed, stream, run,
                   history, exp_orig>>

\* run_single_simulation (lines 8-17) returns data, or None when
\* run_simulation raised; the worker goes on to its next task with
\* params['Seed'] = seed.  A run that never ends returns nothing.
ReturnOrNone ==
    /\ pc \in { "done", "crashed" }
    /\ fout' = Append(fout, IF pc = "done" THEN <<history>> ELSE None)
    /\ fin' = [fin EXCEPT !.task = @ + 1, !.ends = Append(@, pc)]
    /\ IF fin.task < Len(fin.tasks)
       THEN /\ param' = [param EXCEPT !.Seed = fin.tasks[fin.task + 1]]
            /\ pc' = "start"
       ELSE /\ param' = param
            /\ pc' = "mapped"
    /\ UNCHANGED <<ISPs, plans, operator_locations, grid, dynamic_switching_costs, switchers,
                   replacements, num_real_problems, month, Seed, add_to_seed, stream, run,
                   history, exp_orig>>

IsResult(result) == result # None

\* monte_carlo_parallel, line 34: results that are None are left out
DropFailed ==
    /\ pc = "mapped"
    /\ fout' = SelectSeq(fout, IsResult)
    /\ pc' = "returned"
    /\ UNCHANGED <<param, ISPs, plans, operator_locations, grid, dynamic_switching_costs,
                   switchers, replacements, num_real_problems, month, Seed, add_to_seed,
                   stream, run, history, exp_orig, fin>>

NextDriver == Next \/ ReturnOrNone \/ DropFailed

SpecDriver == InitDriver /\ [][NextDriver]_vars

\* the tasks that ended without raising
Succeeded == { i \in 1..Len(fin.ends) : fin.ends[i] = "done" }

\* C19: the list monte_carlo_parallel returns holds one output for each run
\* that did not raise and none for a run that raised, and a run's outcome and
\* output are the same in a fresh process and after a sibling, failed or not
C19_FailedRunsDropped ==
    pc = "returned" =>
      /\ Len(fin.ends) = Len(fin.tasks)
      /\ Len(fout) = Cardinality(Succeeded)
      /\ \A i \in 1..Len(fout) : fout[i] # None /\ Len(fout[i][1]) = param.MaxIter + 1
      /\ fin.ends[3] = fin.ends[1]
      /\ fin.ends[1] = "done" => fout[Len(fout)] = fout[1]

\* the list is returned after the second run raised and the runs around it
\* did not
C19_Witness ==
    /\ pc = "returned"
    /\ fin.ends = <<"done", "crashed", "done">>
    /\ Len(fout) = 2

-----------------------------------------------------------------------------
(* wifi_wholesale_cost on its own, for every speed up to MaxSpeed.         *)

\* the highest speed asked for, above the last tier of the table
MaxSpeed == 1100

InitCost ==
    /\ pc = "speed"
    /\ param = Busy
    /\ fin \in 1..MaxSpeed
    /\ fout = None
    /\ plans = <<>>
    /\ ISPs = <<>>
    /\ operator_locations = [quad \in 0..3 |-> <<>>]
    /\ grid = [c \in CellSet |-> Empty]
    /\ dynamic_switching_costs = [c \in CellSet |-> RZero]
    /\ switchers = [c \in CellSet |-> 0]
    /\ replacements = <<>>
    /\ num_real_problems = 0
    /\ month = 0
    /\ Seed = param.Seed
    /\ add_to_seed = 0
    /\ stream = <<>>
    /\ run = 0
    /\ history = <<>>
    /\ exp_orig = <<>>

\* one call of wifi_wholesale_cost (lines 1347-1353)
WholesaleCost ==
    /\ pc = "speed"
    /\ fout' = wifi_wholesale_cost(fin)
    /\ pc' = "costed"
    /\ UNCHANGED <<param, ISPs, plans, operator_locations, grid, dynamic_switching_costs,
                   switchers, replacements, num_real_problems, month, Seed, add_to_seed,
                   stream, run, history, exp_orig, fin>>

NextCost == WholesaleCost

SpecCost == InitCost /\ [][NextCost]_vars

\* the tier table as the set of its <<speed, cost>> rows
TierTable == { <<12, 12>>, <<25, 26>>, <<50, 50>>, <<100, 55>>, <<250, 60>>, <<1000, 70>> }

\* C20: for a speed of at most 1000 the wholesale cost is the cost of the
\* slowest tier that is at least as fast, and a 12 Mbps plan costs 12
C20_FirstTierAtLeastSpeed ==
    pc = "costed" /\ fin <= 1000 =>
      /\ \E tier \in TierTable :
           /\ tier[1] >= fin
           /\ \A other \in TierTable : other[1] >= fin => tier[1] <= other[1]
           /\ fout = RInt(tier[2])
      /\ fin = 12 => fout = RInt(12)

\* the cost of a 12 Mbps plan has been looked up
C20_Witness == pc = "costed" /\ fin = 12 /\ fout = RInt(12)

-----------------------------------------------------------------------------
(* choose_plan_to_remove on its own, for a firm with every roster of up to *)
(* MaxPlans plans: mobile plans, retired plans and fixed-line plans of two *)
(* footprints and three prices, in every order.                            *)

\* the longest roster of a removal
MaxPlans == 4

RemovalPlans ==
    { Row("Telstra", "mobile", 40, "remote", 20, "Telstra"),
      [Row("Telstra", "wifi", 50, "urban", 20, "NBN Co")
         EXCEPT !.name = "PLAN GONE", !.kind = "index", !.ri = 0] }
    \cup { Row("Telstra", "wifi", 50, loc, price, "NBN Co") :
           loc \in { "urban", "rural" }, price \in { 10, 20, 30 } }

InitRemove ==
    /\ pc = "remove"
    /\ param = Busy
    /\ plans \in UNION { [1..n -> RemovalPlans] : n \in 1..MaxPlans }
    /\ ISPs = [f \in {0} |-> RosterFirm(plans)]
    /\ fin = None
    /\ fout = None
    /\ operator_locations = [quad \in 0..3 |-> <<0>>]
    /\ grid = [c \in CellSet |-> Empty]
    /\ dynamic_switching_costs = [c \in CellSet |-> RZero]
    /\ switchers = [c \in CellSet |-> 0]
    /\ replacements = <<>>
    /\ num_real_problems = 0
    /\ month = 1
    /\ Seed = param.Seed
    /\ add_to_seed = 0
    /\ stream = <<>>
    /\ run = 0
    /\ history = <<>>
    /\ exp_orig = [f \in {0} |-> None]

\* one call of choose_plan_to_remove (lines 1513-1556)
ChoosePlanToRemove ==
    /\ pc = "remove"
    /\ \E c \in choose_plan_to_remove(plans, ISPs[0], param.LenPlanExp, Gen) :
         /\ fout' = c
         /\ add_to_seed' = c.r.ats
    /\ pc' = "chosen"
    /\ UNCHANGED <<param, ISPs, plans, operator_locations, grid, dynamic_switching_costs,
                   switchers, replacements, num_real_problems, month, Seed, stream, run,
                   history, exp_orig, fin>>

NextRemove == ChoosePlanToRemove

SpecRemove == InitRemove /\ [][NextRemove]_vars

\* the roster indices (from 0) of the firm's other fixed-line plans of the
\* footprint of the plan at index experiment
Others(experiment) ==
    { k \in 0..(Len(plans) - 1) :
        /\ k # experiment
        /\ plans[k + 1].kind = "wifi"
        /\ plans[k + 1].loc = plans[experiment + 1].loc }

\* C22: the replacement of a removal is one of the firm's other fixed-line
\* plans of the same footprint: the cheapest of those dearer than the
\* removed plan if there is one, else the dearest of them, and None exactly
\* when there is no such plan
C22_ReplacementNextDearer ==
    pc = "chosen" /\ fout.plan_exp # None =>
      LET experiment == fout.plan_exp[1].idx
          exp_price == plans[experiment + 1].price
          others == Others(experiment)
          above == { k \in others : RGt(plans[k + 1].price, exp_price) }
      IN  /\ plans[experiment + 1].kind = "wifi"
          /\ fout.replacement = None <=> others = {}
          /\ fout.replacement # None =>
               LET best == fout.replacement[1]
               IN  /\ best \in others
                   /\ IF above # {}
                      THEN /\ best \in above
                           /\ \A k \in above : RLe(plans[best + 1].price, plans[k + 1].price)
                      ELSE \A k \in others : RGe(plans[best + 1].price, plans[k + 1].price)

\* a replacement was chosen that is neither the first nor the dearest of the
\* other plans of the footprint
C22_Witness ==
    /\ pc = "chosen"
    /\ fout.plan_exp # None
    /\ fout.replacement # None
    /\ LET others == Others(fout.plan_exp[1].idx)
           best == fout.replacement[1]
       IN  /\ \E k \in others : k < best
           /\ \E k \in others : RGt(plans[k + 1].price, plans[best + 1].price)

-----------------------------------------------------------------------------
(* The price review of a firm with a fixed-line plan of every speed up to  *)
(* MaxSpeed, next to a slower fixed-line plan of the same footprint.       *)

InitFloor ==
    /\ pc = "price"
    /\ param = Busy
    /\ fin \in [speed : 1..MaxSpeed, price : { 20, 40, 50, 60, 200 }]
    /\ plans = << Row("Telstra", "mobile", 40, "remote", 20, "Telstra"),
                  Row("Telstra", "wifi", 10, "urban", 15, "NBN Co"),
                  Row("Telstra", "wifi", fin.speed, "urban", fin.price, "NBN Co") >>
    /\ ISPs = [f \in {0} |-> RosterFirm(plans)]
    /\ operator_locations = [quad \in 0..3 |-> <<0>>]
    /\ grid = [c \in CellSet |-> Empty]
    /\ dynamic_switching_costs = [c \in CellSet |-> RZero]
    /\ switchers = [c \in CellSet |-> 0]
    /\ replacements = <<>>
    /\ num_real_problems = 0
    /\ month = 1
    /\ Seed = param.Seed
    /\ add_to_seed = 0
    /\ stream = <<>>
    /\ run = 0
    /\ history = <<>>
    /\ exp_orig = [f \in {0} |-> None]
    /\ fout = None

NextFloor == ReviewPrices

SpecFloor == InitFloor /\ [][NextFloor]_vars

\* firm f starts a price cut on the fixed-line plan id in this step
StartsCut(f, id) ==
    /\ ISPs[f].price_exp = None
    /\ ISPs'[f].price_exp # None
    /\ ISPs'[f].price_exp[1].plan = id
    /\ RLt(ISPs'[f].price_exp[1].change, RZero)
    /\ plans[id].kind = "wifi"

\* C23: a price cut that is started on a fixed-line plan of at most 1000
\* Mbps leaves its price at or above wifi_wholesale_cost(speed) + 1 and at
\* or above the price of every slower fixed-line plan of the firm that is
\* not retired and has the same footprint
C23_CutNotBelowWholesale ==
    [][pc = "price" =>
         \A f \in Firms : \A id \in DOMAIN plans :
           StartsCut(f, id) /\ plans[id].cap <= 1000 =>
             /\ RGe(plans'[id].price, RAdd(wifi_wholesale_cost(plans[id].cap), RInt(1)))
             /\ \A k \in DOMAIN ISPs[f].roster :
                  LET other == plans[ISPs[f].roster[k]]
                  IN  /\ other.name # "PLAN GONE"
                      /\ other.kind = "wifi"
                      /\ other.loc = plans[id].loc
                      /\ other.cap < plans[id].cap
                      => RGe(plans'[id].price, other.price)]_vars

-----------------------------------------------------------------------------
(* pick_operators on its own: the firms listed in one quadrant and a time  *)
(* budget.                                                                 *)

\* what a listed firm offers in the quadrant, as <<mobile, wifi>>:
\* define_ISPs_per_location lists a firm where it offers one or the other
Listings == { <<TRUE, FALSE>>, <<FALSE, TRUE>>, <<TRUE, TRUE>> }

\* a household of quadrant 0 looks for operators; every listed firm has a
\* positive marketing weight
InitPick ==
    /\ pc = "pick"
    /\ param = Busy
    /\ fin \in [offers : UNION { [1..n -> Listings] : n \in 1..MaxFirms },
                TimeBudget : 0..(MaxFirms + 1)]
    /\ ISPs = [f \in 0..(Len(fin.offers) - 1) |->
                 [RosterFirm(<<FALSE>>) EXCEPT !.mobile_offered = fin.offers[f + 1][1],
                                               !.wifi_offered = fin.offers[f + 1][2]]]
    /\ operator_locations = [quad \in 0..3 |->
                               IF quad = 0 THEN [k \in 1..Len(fin.offers) |-> k - 1] ELSE <<>>]
    /\ plans = <<RosterPlan(1, FALSE)>>
    /\ fout = None
    /\ grid = [c \in CellSet |-> Empty]
    /\ dynamic_switching_costs = [c \in CellSet |-> RZero]
    /\ switchers = [c \in CellSet |-> 0]
    /\ replacements = <<>>
    /\ num_real_problems = 0
    /\ month = 0
    /\ Seed = param.Seed
    /\ add_to_seed = 0
    /\ stream = <<>>
    /\ run = 0
    /\ history = <<>>
    /\ exp_orig = <<>>

\* one call of pick_operators for quadrant 0
PickOperators ==
    /\ pc = "pick"
    /\ \E o \in pick_operators(ISPs, 0, operator_locations, fin.TimeBudget,
                               param.MarketingBudget, Gen) :
         /\ fout' = o
         /\ add_to_seed' = o.r.ats
         /\ pc' = IF o.ok THEN "picked" ELSE "crashed"
    /\ UNCHANGED <<param, ISPs, plans, operator_locations, grid, dynamic_switching_costs,
                   switchers, replacements, num_real_problems, month, Seed, stream, run,
                   history, exp_orig, fin>>

NextPick == PickOperators

SpecPick == InitPick /\ [][NextPick]_vars

\* no entry of the sequence appears twice
NoRepeat(sq) == \A i, j \in 1..Len(sq) : sq[i] = sq[j] => i = j

\* how many of the first n draws were made in the phase and drew a firm
\* that has the offer (1 mobile, 2 wifi; 0 for any firm)
Drawn(drawn, n, phase, offer) ==
    Cardinality({ k \in 1..n :
        /\ drawn[k][1] = phase
        /\ offer = 1 => OffersMobile(ISPs[drawn[k][2]], 0)
        /\ offer = 2 => OffersWifi(ISPs[drawn[k][2]], 0) })

\* C26: a call of pick_operators returns; no firm is drawn twice and none is
\* twice in the mobile list or twice in the wifi list; the time-budget phase
\* draws min(TimeBudget, firms listed) firms; a balancing draw is made only
\* while the lists differ in length and candidates remain, and adds to the
\* shorter list only
C26_DrawsWithoutReplacement ==
    pc # "pick" =>
        /\ pc = "picked"
        /\ LET drawn == fout.drawn
               all == Len(drawn)
               listed == Len(operator_locations[0])
               m1 == Drawn(drawn, all, 1, 1)
               w1 == Drawn(drawn, all, 1, 2)
           IN  /\ NoRepeat([k \in 1..all |-> drawn[k][2]])
               /\ NoRepeat(fout.mob) /\ NoRepeat(fout.wifi)
               /\ Drawn(drawn, all, 1, 0) =
                    (IF fin.TimeBudget < listed THEN fin.TimeBudget ELSE listed)
               /\ \A k \in 1..all :
                    /\ drawn[k][1] = 2 => w1 + Drawn(drawn, k - 1, 2, 2) < m1
                    /\ drawn[k][1] = 3 => m1 + Drawn(drawn, k - 1, 3, 1) < w1
               /\ Len(fout.mob) = m1 + Drawn(drawn, all, 3, 1)
               /\ Len(fout.wifi) = w1 + Drawn(drawn, all, 2, 2)
               /\ Len(fout.mob) = Len(fout.wifi) \/ all = listed

\* a balancing draw found a fixed-line firm and the lists came out equal
C26_Witness ==
    /\ pc = "picked"
    /\ fin.TimeBudget = 2
    /\ Len(fin.offers) = MaxFirms
    /\ \E k \in 1..Len(fout.drawn) : fout.drawn[k][1] = 2
    /\ Len(fout.mob) = 2
    /\ Len(fout.wifi) = 2

-----------------------------------------------------------------------------
(* The months of a market in which one firm alone serves the remote        *)
(* quadrant, with a fixed-line plan, and of a household there and one in   *)
(* the urban quadrant.                                                     *)

\* the plans file: no mobile plan reaches the remote quadrant
RemoteCatalogue ==
    << Row("Telstra", "mobile", 40, "regional", 20, "Telstra"),
       Row("Telstra", "wifi", 25, "urban", 40, "NBN Co"),
       Row("TPG", "mobile", 100, "regional", 30, "Telstra"),
       Row("TPG", "wifi", 25, "remote", 40, "NBN Co") >>

\* the cells of the two households: the first and the last of the pass of
\* all_agents_updates
RemoteHomes == { Cells[1], Cells[Len(Cells)] }

\* run_simulation has initialised the firms and the grid (lines 2367-2373);
\* the firms try no prices, and the run lasts one month more than the months
\* of a product experiment and its review
InitRemote ==
    /\ pc = "profits"
    /\ param = [Busy EXCEPT !.PrPriceExp = RZero, !.MaxIter = MaxIter + 1]
    /\ plans = RemoteCatalogue
    /\ LET separated_plans == separate_plans_by_ISP(RemoteCatalogue, 2, <<1>>, <<>>)
           isps == create_ultimate_list_of_ISPs(RemoteCatalogue, separated_plans,
                                                param.InitialMoneyPool)
           oploc == define_ISPs_per_location(isps)
           r == [seed |-> param.Seed, ats |-> 0, fn |-> <<>>, mode |-> "free"]
       IN  /\ ISPs = isps
           /\ operator_locations = oploc
           /\ exp_orig = [f \in DOMAIN isps |-> None]
           /\ \E inc \in [RemoteHomes -> {800, 4000}] :
              \E o \in [RemoteHomes -> UNION { Decide(isps, RemoteCatalogue, oploc, c, RInt(inc[c]),
                                                      <<None, None>>, param, r, TRUE)
                                               : c \in RemoteHomes }] :
                /\ \A c \in RemoteHomes :
                     /\ o[c].ok
                     /\ o[c] \in Decide(isps, RemoteCatalogue, oploc, c, RInt(inc[c]),
                                        <<None, None>>, param, r, TRUE)
                /\ grid = [c \in CellSet |->
                            IF c \in RemoteHomes
                            THEN [populated |-> TRUE, income |-> RInt(inc[c]),
                                  bundle |-> o[c].bundle,
                                  spent |-> decide_expenditure(RemoteCatalogue, o[c].bundle,
                                                               RInt(inc[c]))]
                            ELSE Empty]
    /\ dynamic_switching_costs = [c \in CellSet |-> RZero]
    /\ switchers = [c \in CellSet |-> 0]
    /\ replacements = <<>>
    /\ num_real_problems = 0
    /\ month = 0
    /\ Seed = param.Seed
    /\ add_to_seed = 0
    /\ stream = <<>>
    /\ run = 0
    /\ history = <<>>
    /\ fin = None
    /\ fout = None

NextRemote ==
    \/ UpdateProfits
    \/ CheckBankruptcy
    \/ ReviewPrices
    \/ ReviewPlans
    \/ AllAgentsUpdates
    \/ ContemplateAndAct

SpecRemote == InitRemote /\ [][NextRemote]_vars

\* C28: at the end of a month the expenditure recorded for a household is
\* the percentage of its own income that its bundle costs, and None exactly
\* when it holds no plan
C28_ExpenditureOfOwnIncome ==
    MonthEnd =>
        \A c \in Populated :
            /\ grid[c].spent = decide_expenditure(plans, grid[c].bundle, grid[c].income)
            /\ grid[c].spent = None <=> grid[c].bundle = <<None, None>>

-----------------------------------------------------------------------------
(* The monthly loop of a market whose operating fees the first firm cannot *)
(* pay from the sales of its first month.                                  *)

\* the arguments of run_simulation: a reseller fee of 5 per quadrant served
\* and no wholesaler fee
Squeezed == [Busy EXCEPT !.ResellerOperatingFee = RInt(5), !.WholesalerOperatingFee = RZero]

InitRecover == InitWith(0, { Squeezed }, { <<>> })

SpecRecover == InitRecover /\ [][Next]_vars

-----------------------------------------------------------------------------
(* ensure_adds_to_1 on its own, for probability vectors of any sum.        *)

\* the entries of a vector: 0, one below the 0.001 of the loop, and quarters
Entries == { RZero, Rat(1, 2048), Rat(1, 4), Rat(1, 2), Rat(3, 4), RInt(1) }

InitVector ==
    /\ pc = "vector"
    /\ param = Busy
    /\ fin \in UNION { [1..n -> Entries] : n \in 1..MaxFirms }
    /\ fout = None
    /\ plans = <<>>
    /\ ISPs = <<>>
    /\ operator_locations = [quad \in 0..3 |-> <<>>]
    /\ grid = [c \in CellSet |-> Empty]
    /\ dynamic_switching_costs = [c \in CellSet |-> RZero]
    /\ switchers = [c \in CellSet |-> 0]
    /\ replacements = <<>>
    /\ num_real_problems = 0
    /\ month = 0
    /\ Seed = param.Seed
    /\ add_to_seed = 0
    /\ stream = <<>>
    /\ run = 0
    /\ history = <<>>
    /\ exp_orig = <<>>

\* one call of ensure_adds_to_1(probs_array, Seed)
EnsureAddsTo1 ==
    /\ pc = "vector"
    /\ \E o \in ensure_adds_to_1(fin, Gen) :
         /\ fout' = o
         /\ add_to_seed' = o.r.ats
         /\ pc' = IF o.ok THEN "ensured" ELSE Stop(o)
    /\ UNCHANGED <<param, ISPs, plans, operator_locations, grid, dynamic_switching_costs,
                   switchers, replacements, num_real_problems, month, Seed, stream, run,
                   history, exp_orig, fin>>

NextVector == EnsureAddsTo1

SpecVector == InitVector /\ [][NextVector]_vars

\* C30: a call of ensure_adds_to_1 with a non-empty vector returns, and
\* returns a vector of the length it was given
C30_EnsureReturns ==
    pc # "vector" => pc = "ensured" /\ Len(fout.probs) = Len(fin)

====
